---- MODULE Spec2Model ----
(***************************************************************************)
(* Model of the crawl / reduction pipeline of CMSAutomateX                 *)
(* (src/crawler.py): the URL pattern normaliser, the representative URL    *)
(* selector, and the concurrent fetch phase of crawl_website.              *)
(*                                                                         *)
(* Text is modelled at character level where the code looks at characters  *)
(* (the path segments _normalize_pattern classifies are sequences of       *)
(* one-character strings over ASCII), and as runs of characters where the  *)
(* code only slices and joins (page extracts and the corpus).              *)
(***************************************************************************)
EXTENDS Integers, Sequences, FiniteSets, TLC

\* the depth of nested _extract_urls_from_sitemap calls the interpreter's
\* recursion limit allows (about a thousand frames in CPython, scaled down)
RecursionLimit == 3

\* most <sitemap> entries of a sitemap index handed to the expansion
MaxChildren == 2

\* most lines of a context handed to _filter_context_by_urls
MaxLines == 4

\* most URLs of a batch handed to _filter_context_by_urls
MaxBatch == 2

(***************************************************************************)
(* Bounds of the model.                                                    *)
(***************************************************************************)
\* longest path, in segments, of a URL handed to _normalize_pattern
MaxSegs == 2
\* longest <loc> list of the sitemap documents handed to the selector
MaxLocs == 3
\* largest max_types handed to the selector
MaxTypes == 3
\* the max_pages of the /blog/1, /blog/2, /about scenario
ScenarioMaxPages == 10
\* most URLs a sitemap of a crawled site lists, when fetches run concurrently
MaxLinks == 3
\* most URLs a sitemap of a crawled site lists, when fetches run one by one
MaxPages == 5
\* most URLs a sitemap of a crawled site lists, when progress is checked
MaxLiveLinks == 2
\* most anchors on the page the fallback reads
MaxAnchors == 3
\* largest concurrency handed to crawl_website
MaxConcurrency == 2
\* most URLs of a crawl whose analysis is enumerated with every model answer
MaxUrls == 3
\* how far around the batch-size thresholds the larger crawls reach
MaxOver == 1
\* longest text handed to _escape_newlines_in_strings on its own
MaxText == 5

(***************************************************************************)
(* Characters and Python's str predicates, restricted to ASCII.            *)
(***************************************************************************)
DigitChars ==
    <<"0", "1", "2", "3", "4", "5", "6", "7", "8", "9">>

LowerChars ==
    <<"a", "b", "c", "d", "e", "f", "g", "h", "i", "j", "k", "l", "m",
      "n", "o", "p", "q", "r", "s", "t", "u", "v", "w", "x", "y", "z">>

UpperChars ==
    <<"A", "B", "C", "D", "E", "F", "G", "H", "I", "J", "K", "L", "M",
      "N", "O", "P", "Q", "R", "S", "T", "U", "V", "W", "X", "Y", "Z">>

Range(f) ==
    {f[i] : i \in DOMAIN f}

DigitCharSet ==
    Range(DigitChars)

AlphaCharSet ==
    Range(LowerChars) \cup Range(UpperChars)

HexCharSet ==
    DigitCharSet \cup {"a", "b", "c", "d", "e", "f", "A", "B", "C", "D", "E", "F"}

IsDigitChar(c) ==
    c \in DigitCharSet

IsAlphaChar(c) ==
    c \in AlphaCharSet

IsHexChar(c) ==
    c \in HexCharSet

\* int(c) for every decimal digit c
DigitValues ==
    [c \in DigitCharSet |-> (CHOOSE i \in DOMAIN DigitChars : DigitChars[i] = c) - 1]

DigitValue(c) ==
    DigitValues[c]

\* c.lower() for every upper-case letter c
LowerOfUpper ==
    [c \in Range(UpperChars) |->
        LowerChars[CHOOSE i \in DOMAIN UpperChars : UpperChars[i] = c]]

\* c.lower()
LowerChar(c) ==
    IF c \in DOMAIN LowerOfUpper THEN LowerOfUpper[c] ELSE c

\* s.lower()
Lower(s) ==
    [i \in 1..Len(s) |-> LowerChar(s[i])]

\* s.isdigit(): non-empty and every character a digit
IsDigitStr(s) ==
    /\ Len(s) > 0
    /\ \A i \in 1..Len(s) : IsDigitChar(s[i])

\* s.isalnum(): non-empty and every character a letter or a digit
IsAlnum(s) ==
    /\ Len(s) > 0
    /\ \A i \in 1..Len(s) : IsDigitChar(s[i]) \/ IsAlphaChar(s[i])

(***************************************************************************)
(* The regular expressions of _normalize_pattern.                          *)
(***************************************************************************)
\* uuid_re: 8-4-4-4-12 hexadecimal digits
UuidMatch(s) ==
    /\ Len(s) = 36
    /\ \A i \in 1..36 :
          IF i \in {9, 14, 19, 24} THEN s[i] = "-" ELSE IsHexChar(s[i])

\* ^\d{4}$
Digits4Match(s) ==
    /\ Len(s) = 4
    /\ \A i \in 1..4 : IsDigitChar(s[i])

\* ^\d{4}-\d{2}(-\d{2})?$
DateMatch(s) ==
    /\ Len(s) \in {7, 10}
    /\ \A i \in 1..Len(s) :
          IF i \in {5, 8} THEN s[i] = "-" ELSE IsDigitChar(s[i])

\* ^\d{2}$
Digits2Match(s) ==
    /\ Len(s) = 2
    /\ \A i \in 1..2 : IsDigitChar(s[i])

\* ^[a-zA-Z0-9]{8,}$ with at least one digit and at least one letter
AlphaIdMatch(s) ==
    /\ Len(s) >= 8
    /\ \A i \in 1..Len(s) : IsDigitChar(s[i]) \/ IsAlphaChar(s[i])
    /\ \E i \in 1..Len(s) : IsDigitChar(s[i])
    /\ \E i \in 1..Len(s) : IsAlphaChar(s[i])

\* "-" in s or "_" in s
HasHyphenOrUnderscore(s) ==
    \E i \in 1..Len(s) : s[i] \in {"-", "_"}

(***************************************************************************)
(* Placeholder tokens.                                                     *)
(***************************************************************************)
TokId ==
    <<":", "i", "d">>

TokUuid ==
    <<":", "u", "u", "i", "d">>

TokYear ==
    <<":", "y", "e", "a", "r">>

TokDate ==
    <<":", "d", "a", "t", "e">>

TokMonth ==
    <<":", "m", "o", "n", "t", "h">>

TokDay ==
    <<":", "d", "a", "y">>

TokAlphaId ==
    <<":", "a", "l", "p", "h", "a", "i", "d">>

TokSlug ==
    <<":", "s", "l", "u", "g">>

static_pages ==
    {<<"a", "b", "o", "u", "t">>,
     <<"c", "o", "n", "t", "a", "c", "t">>,
     <<"s", "e", "r", "v", "i", "c", "e", "s">>,
     <<"p", "r", "o", "d", "u", "c", "t", "s">>,
     <<"b", "l", "o", "g">>,
     <<"n", "e", "w", "s">>,
     <<"t", "e", "a", "m">>,
     <<"p", "r", "i", "c", "i", "n", "g">>,
     <<"f", "a", "q">>,
     <<"h", "e", "l", "p">>,
     <<"s", "u", "p", "p", "o", "r", "t">>,
     <<"c", "a", "r", "e", "e", "r", "s">>,
     <<"i", "n", "d", "e", "x">>,
     <<"h", "o", "m", "e">>,
     <<"p", "o", "r", "t", "f", "o", "l", "i", "o">>,
     <<"g", "a", "l", "l", "e", "r", "y">>,
     <<"e", "v", "e", "n", "t", "s">>}

(***************************************************************************)
(* The branches of the segment classifier, in the order of the if/elif     *)
(* chain of _normalize_pattern.                                            *)
(***************************************************************************)
\* a plausible slip: the numeric branch keeps the segment
NumericIdRuleKeepsSegment(s) ==
    Lower(s)

\* if s.isdigit(): norm.append(":id")
NumericIdRule(s) ==
    TokId

\* the two-digit branch: month, day or id by numeric value
MonthDayRule(s) ==
    LET num == 10 * DigitValue(s[1]) + DigitValue(s[2])
    IN  IF 1 <= num /\ num <= 12 THEN TokMonth
        ELSE IF 13 <= num /\ num <= 31 THEN TokDay
        ELSE TokId

\* the branch for segments holding "-" or "_"
HyphenRule(s, is_last) ==
    IF is_last /\ Len(s) > 15 THEN TokSlug
    ELSE IF ~is_last /\ Len(s) <= 25 THEN Lower(s)
    ELSE IF is_last THEN TokSlug
    ELSE Lower(s)

\* the branch for a short alphanumeric last segment
StaticPageRule(s) ==
    IF Lower(s) \in static_pages THEN Lower(s) ELSE TokSlug

ClassifySegment(s, is_last) ==
    IF IsDigitStr(s) THEN NumericIdRule(s)
    ELSE IF UuidMatch(s) THEN TokUuid
    ELSE IF Digits4Match(s) THEN TokYear
    ELSE IF DateMatch(s) THEN TokDate
    ELSE IF Digits2Match(s) THEN MonthDayRule(s)
    ELSE IF AlphaIdMatch(s) THEN TokAlphaId
    ELSE IF HasHyphenOrUnderscore(s) THEN HyphenRule(s, is_last)
    ELSE IF Len(s) > 30 THEN TokSlug
    ELSE IF ~is_last /\ Len(s) <= 20 /\ IsAlnum(s) THEN Lower(s)
    ELSE IF is_last /\ Len(s) <= 20 /\ IsAlnum(s) THEN StaticPageRule(s)
    ELSE Lower(s)

(***************************************************************************)
(* URLs.  A URL is a record [netloc, path]: netloc is what urlparse gives  *)
(* as the host, path is the URL's path split at "/", so it may hold empty  *)
(* pieces (a doubled or trailing slash).                                   *)
(***************************************************************************)
\* segments = [s for s in path.split("/") if s]
RECURSIVE Segments(_)
Segments(path) ==
    IF path = <<>> THEN <<>>
    ELSE IF Head(path) = <<>> THEN Segments(Tail(path))
    ELSE <<Head(path)>> \o Segments(Tail(path))

\* "/" + "/".join(norm)
RECURSIVE JoinPattern(_)
JoinPattern(norm) ==
    IF norm = <<>> THEN <<>>
    ELSE <<"/">> \o Head(norm) \o JoinPattern(Tail(norm))

\* _normalize_pattern(url, base_netloc); the empty pattern "" is <<>>
NormalizePattern(url, base_netloc) ==
    IF url.netloc # base_netloc THEN <<>>
    ELSE LET segments == Segments(url.path)
         IN  IF segments = <<>> THEN <<"/">>
             ELSE JoinPattern([i \in 1..Len(segments) |->
                      ClassifySegment(segments[i], i = Len(segments))])

(***************************************************************************)
(* Sitemaps.  The web is a function from sitemap URLs to what a navigation *)
(* to them gives: status "ok", "http_error" (resp.ok false) or "exception" *)
(* (page.goto raises); the <sitemap><loc> entries of a sitemap index; the  *)
(* <url><loc> entries; and the <loc> entries outside any <url>.  A URL     *)
(* outside the function's domain is unreachable.                           *)
(***************************************************************************)
RECURSIVE ExtractUrlsFromSitemap(_, _)
RECURSIVE ExtractIndexChildren(_, _)

\* for sm in index: urls.extend(await _extract_urls_from_sitemap(page, loc))
ExtractIndexChildren(w, children) ==
    IF children = <<>> THEN <<>>
    ELSE ExtractUrlsFromSitemap(w, Head(children))
            \o ExtractIndexChildren(w, Tail(children))

\* _extract_urls_from_sitemap(page, sitemap_url)
ExtractUrlsFromSitemap(w, sitemap_url) ==
    IF sitemap_url \notin DOMAIN w THEN <<>>
    ELSE IF w[sitemap_url].status # "ok" THEN <<>>
    ELSE IF w[sitemap_url].sitemaps # <<>>
         THEN ExtractIndexChildren(w, w[sitemap_url].sitemaps)
    ELSE IF w[sitemap_url].url_locs # <<>> THEN w[sitemap_url].url_locs
    ELSE w[sitemap_url].other_locs

\* "sitemap.xml"
seg_sitemap_xml ==
    <<"s", "i", "t", "e", "m", "a", "p", ".", "x", "m", "l">>

\* "sitemap_index.xml"
seg_sitemap_index_xml ==
    <<"s", "i", "t", "e", "m", "a", "p", "_", "i", "n", "d", "e", "x",
      ".", "x", "m", "l">>

\* _discover_sitemap_urls(page, base_url), before list(): robots is what the
\* navigation to /robots.txt gives, its "Sitemap:" lines as records
\* [http, url] (http: the value starts with "http")
DiscoverSitemapUrls(robots, base_url) ==
    (IF robots.status = "ok"
     THEN {d.url : d \in {e \in robots.sitemaps : e.http}}
     ELSE {})
    \cup {[netloc |-> base_url.netloc, path |-> <<seg_sitemap_xml>>],
          [netloc |-> base_url.netloc, path |-> <<seg_sitemap_index_xml>>]}

\* the orders list(sitemap_urls) may give for a set
ListOrders(S) ==
    {f \in [1..Cardinality(S) -> S] : \A x \in S : \E i \in DOMAIN f : f[i] = x}

(***************************************************************************)
(* The representative URL selector.  patterns_to_url, an insertion-ordered *)
(* dict, is a sequence of <<pattern, url>> pairs with distinct patterns.   *)
(***************************************************************************)
DictKeys(d) ==
    {d[i][1] : i \in DOMAIN d}

\* list(patterns_to_url.values())
DictValues(d) ==
    [i \in DOMAIN d |-> d[i][2]]

\* a plausible slip: no membership test, a later URL replaces the earlier one
RecordPatternOverwrites(d, pattern, u) ==
    IF pattern \in DictKeys(d)
    THEN [i \in DOMAIN d |-> IF d[i][1] = pattern THEN <<pattern, u>> ELSE d[i]]
    ELSE Append(d, <<pattern, u>>)

\* if pattern not in patterns_to_url: patterns_to_url[pattern] = u
RecordPattern(d, pattern, u) ==
    IF pattern \in DictKeys(d) THEN d ELSE Append(d, <<pattern, u>>)

\* the inner loop of _representative_urls_from_sitemaps over one sitemap's
\* URLs, from dict d; the loop breaks after an insertion that reaches max_types
RECURSIVE SitemapsInnerLoop(_, _, _, _)
SitemapsInnerLoop(urls, netloc, max_types, d) ==
    IF urls = <<>> THEN d
    ELSE LET u == Head(urls)
             pattern == NormalizePattern(u, netloc)
         IN  IF u.netloc # netloc
                THEN SitemapsInnerLoop(Tail(urls), netloc, max_types, d)
             ELSE IF pattern = <<>>
                THEN SitemapsInnerLoop(Tail(urls), netloc, max_types, d)
             ELSE IF pattern \notin DictKeys(d)
                THEN LET d2 == RecordPattern(d, pattern, u)
                     IN  IF Len(d2) >= max_types THEN d2
                         ELSE SitemapsInnerLoop(Tail(urls), netloc, max_types, d2)
             ELSE SitemapsInnerLoop(Tail(urls), netloc, max_types,
                                    RecordPattern(d, pattern, u))

\* the outer loop of _representative_urls_from_sitemaps over the discovered
\* sitemaps; it breaks after a sitemap that leaves the dict at max_types
RECURSIVE SitemapsOuterLoop(_, _, _, _, _)
SitemapsOuterLoop(w, sitemap_list, netloc, max_types, d) ==
    IF sitemap_list = <<>> THEN d
    ELSE LET d2 == SitemapsInnerLoop(ExtractUrlsFromSitemap(w, Head(sitemap_list)),
                                     netloc, max_types, d)
         IN  IF Len(d2) >= max_types THEN d2
             ELSE SitemapsOuterLoop(w, Tail(sitemap_list), netloc, max_types, d2)

\* _representative_urls_from_sitemaps(page, base_url, max_types), for the
\* order sitemap_list in which the discovered set is iterated
RepresentativeUrlsFromSitemaps(w, sitemap_list, base_url, max_types) ==
    DictValues(SitemapsOuterLoop(w, sitemap_list, base_url.netloc, max_types, <<>>))

\* the loop of _representative_urls_from_given_sitemap
RECURSIVE GivenSitemapLoop(_, _, _, _)
GivenSitemapLoop(urls, netloc, max_types, d) ==
    IF urls = <<>> THEN d
    ELSE LET u == Head(urls)
             pattern == NormalizePattern(u, IF netloc # "" THEN netloc ELSE u.netloc)
         IN  IF netloc # "" /\ u.netloc # netloc
                THEN GivenSitemapLoop(Tail(urls), netloc, max_types, d)
             ELSE IF pattern = <<>>
                THEN GivenSitemapLoop(Tail(urls), netloc, max_types, d)
             ELSE IF pattern \notin DictKeys(d)
                THEN LET d2 == RecordPattern(d, pattern, u)
                     IN  IF Len(d2) >= max_types THEN d2
                         ELSE GivenSitemapLoop(Tail(urls), netloc, max_types, d2)
             ELSE GivenSitemapLoop(Tail(urls), netloc, max_types,
                                   RecordPattern(d, pattern, u))

\* netloc = urlparse(sitemap_url).netloc, or that of urls[0] when it is empty
GivenSitemapNetloc(urls, sitemap_url) ==
    IF sitemap_url.netloc = "" /\ urls # <<>> THEN urls[1].netloc
    ELSE sitemap_url.netloc

\* _representative_urls_from_given_sitemap(page, sitemap_url, max_types)
RepresentativeUrlsFromGivenSitemap(w, sitemap_url, max_types) ==
    LET urls == ExtractUrlsFromSitemap(w, sitemap_url)
    IN  DictValues(GivenSitemapLoop(urls, GivenSitemapNetloc(urls, sitemap_url),
                                    max_types, <<>>))

(***************************************************************************)
(* crawl_website: link selection.                                          *)
(***************************************************************************)
\* the path of a URL as one string: "/" before every piece
RECURSIVE PathString(_)
PathString(path) ==
    IF path = <<>> THEN <<>>
    ELSE <<"/">> \o Head(path) \o PathString(Tail(path))

\* sub in s, for strings as character sequences
Contains(s, sub) ==
    \E k \in 0..(Len(s) - Len(sub)) : SubSeq(s, k + 1, k + Len(sub)) = sub

\* s.endswith(suffix)
EndsWith(s, suffix) ==
    /\ Len(s) >= Len(suffix)
    /\ SubSeq(s, Len(s) - Len(suffix) + 1, Len(s)) = suffix

\* s.startswith(prefix)
StartsWith(s, prefix) ==
    /\ Len(s) >= Len(prefix)
    /\ SubSeq(s, 1, Len(prefix)) = prefix

\* url.lower().endswith(".xml") or "sitemap" in url.lower(), decided on the
\* path (the hosts of the model hold neither)
IsSitemapUrl(url) ==
    LET lowered == Lower(PathString(url.path))
    IN  \/ EndsWith(lowered, <<".", "x", "m", "l">>)
        \/ Contains(lowered, <<"s", "i", "t", "e", "m", "a", "p">>)

\* lst[:n] for n >= 0
Slice(lst, n) ==
    IF n >= Len(lst) THEN lst ELSE SubSeq(lst, 1, n)

\* [l for l in links if urlparse(l).netloc == base_netloc and l.startswith(url)]
RECURSIVE FallbackFilter(_, _)
FallbackFilter(links, url) ==
    IF links = <<>> THEN <<>>
    ELSE IF /\ Head(links).netloc = url.netloc
            /\ StartsWith(PathString(Head(links).path), PathString(url.path))
         THEN <<Head(links)>> \o FallbackFilter(Tail(links), url)
    ELSE FallbackFilter(Tail(links), url)

\* the anchor-based fallback, cut to max_pages
FallbackLinks(links, url, max_pages) ==
    Slice(FallbackFilter(links, url), max_pages)

\* links_to_crawl, from the representative links and the anchors of the page
LinksToCrawl(representative_links, anchors, url, max_pages) ==
    IF representative_links # <<>> THEN Slice(representative_links, max_pages)
    ELSE FallbackLinks(anchors, url, max_pages)

(***************************************************************************)
(* crawl_website: page text.  A string is a sequence of runs              *)
(* [page, off, len]: the len characters from offset off of the visible     *)
(* text of the page fetched by task page; page 0 is the "\n" that join()   *)
(* puts between two texts.                                                 *)
(***************************************************************************)
PageCharBudget ==
    6000

CorpusCharBudget ==
    20000

SpaTextThreshold ==
    300

SpaScriptThreshold ==
    8

Min(a, b) ==
    IF a <= b THEN a ELSE b

\* text[:6000] of the text of task i, text_len characters long
ClipPageText(i, text_len) ==
    [page |-> i, off |-> 0, len |-> Min(text_len, PageCharBudget)]

\* the locals "html" and "text" of fetch after a static response with status
\* 200, as _looks_like_spa sees them; NoResponse before and after
StaticResponse(html, text_len) ==
    [text_len |-> text_len, marker |-> html.marker, scripts |-> html.scripts]

NoResponse ==
    [text_len |-> 0, marker |-> FALSE, scripts |-> 0]

\* a plausible slip: <= for <
LooksLikeSpaAtThreshold(html, text_len) ==
    /\ text_len <= SpaTextThreshold
    /\ \/ html.marker
       \/ html.scripts >= SpaScriptThreshold

\* _looks_like_spa(html, text_len), html as [marker, scripts]: whether a known
\* marker occurs in it and how often "<script" does
LooksLikeSpa(html, text_len) ==
    /\ text_len < SpaTextThreshold
    /\ \/ html.marker
       \/ html.scripts >= SpaScriptThreshold

\* "\n".join(texts)
RECURSIVE JoinLines(_)
JoinLines(texts) ==
    IF texts = <<>> THEN <<>>
    ELSE IF Len(texts) = 1 THEN texts
    ELSE <<Head(texts), [page |-> 0, off |-> 0, len |-> 1]>>
            \o JoinLines(Tail(texts))

RECURSIVE StringLen(_)
StringLen(runs) ==
    IF runs = <<>> THEN 0 ELSE Head(runs).len + StringLen(Tail(runs))

\* a plausible slip: the slice keeps the end, runs[-n:]
RECURSIVE TakeLastChars(_, _)
TakeLastChars(runs, n) ==
    IF runs = <<>> \/ n <= 0 THEN <<>>
    ELSE LET last == runs[Len(runs)]
             init == SubSeq(runs, 1, Len(runs) - 1)
         IN  IF last.len >= n
             THEN <<[last EXCEPT !.off = last.off + last.len - n, !.len = n]>>
             ELSE TakeLastChars(init, n - last.len) \o <<last>>

\* runs[:n]
RECURSIVE TakeChars(_, _)
TakeChars(runs, n) ==
    IF runs = <<>> \/ n <= 0 THEN <<>>
    ELSE IF Head(runs).len >= n THEN <<[Head(runs) EXCEPT !.len = n]>>
    ELSE <<Head(runs)>> \o TakeChars(Tail(runs), n - Head(runs).len)

\* Python's None as a result of fetch: no page, no characters
None ==
    [page |-> -1, off |-> 0, len |-> 0]

\* "if r": neither None nor the empty string
Truthy(r) ==
    r # None /\ r.len > 0

\* the loop over results: the truthy ones, in order
RECURSIVE CollectTexts(_, _)
CollectTexts(res, i) ==
    IF i > Len(res) THEN <<>>
    ELSE IF Truthy(res[i])
         THEN <<res[i]>> \o CollectTexts(res, i + 1)
    ELSE CollectTexts(res, i + 1)

\* ... and the URLs of the truthy results, in order
RECURSIVE CollectUrls(_, _, _)
CollectUrls(res, links, i) ==
    IF i > Len(res) THEN <<>>
    ELSE IF Truthy(res[i])
         THEN <<links[i]>> \o CollectUrls(res, links, i + 1)
    ELSE CollectUrls(res, links, i + 1)

\* a plausible slip: the URL is not recorded as visited
VisitedAfterAdmitForgets(visited_set, u) ==
    visited_set

\* visited.add(url_to_fetch)
VisitedAfterAdmit(visited_set, u) ==
    visited_set \cup {u}

\* a plausible slip: entering the gate does not take a permit
SemAfterAcquireKeeps(value) ==
    value

\* sem.acquire() on a semaphore with a free permit
SemAfterAcquire(value) ==
    value - 1

\* a plausible slip: the permit is not handed back
SemAfterReleaseLeaks(value) ==
    value

\* sem.release()
SemAfterRelease(value) ==
    value + 1

(***************************************************************************)
(* The inputs the model draws from.                                        *)
(***************************************************************************)
\* "products"
seg_products ==
    <<"p", "r", "o", "d", "u", "c", "t", "s">>

\* "blog"
seg_blog ==
    <<"b", "l", "o", "g">>

\* "about"
seg_about ==
    <<"a", "b", "o", "u", "t">>

\* "Team"
seg_Team ==
    <<"T", "e", "a", "m">>

\* "widgets"
seg_widgets ==
    <<"w", "i", "d", "g", "e", "t", "s">>

\* "1"
seg_1 ==
    <<"1">>

\* "2"
seg_2 ==
    <<"2">>

\* "123"
seg_123 ==
    <<"1", "2", "3">>

\* "456"
seg_456 ==
    <<"4", "5", "6">>

\* "2024"
seg_2024 ==
    <<"2", "0", "2", "4">>

\* "07"
seg_07 ==
    <<"0", "7">>

\* "25"
seg_25 ==
    <<"2", "5">>

\* "45"
seg_45 ==
    <<"4", "5">>

\* "00"
seg_00 ==
    <<"0", "0">>

\* "2024-07"
seg_date_ym ==
    <<"2", "0", "2", "4", "-", "0", "7">>

\* "2024-07-15"
seg_date_ymd ==
    <<"2", "0", "2", "4", "-", "0", "7", "-", "1", "5">>

\* "123e4567-e89b-12d3-a456-426614174000"
seg_uuid ==
    <<"1", "2", "3", "e", "4", "5", "6", "7", "-", "e", "8", "9", "b", "-",
      "1", "2", "d", "3", "-", "a", "4", "5", "6", "-", "4", "2", "6", "6",
      "1", "4", "1", "7", "4", "0", "0", "0">>

\* "abc12345"
seg_alphaid ==
    <<"a", "b", "c", "1", "2", "3", "4", "5">>

\* "running-shoes-for-trail-use"
seg_long_slug ==
    <<"r", "u", "n", "n", "i", "n", "g", "-", "s", "h", "o", "e", "s", "-",
      "f", "o", "r", "-", "t", "r", "a", "i", "l", "-", "u", "s", "e">>

\* "my-post"
seg_short_slug ==
    <<"m", "y", "-", "p", "o", "s", "t">>

\* 31 times "x"
seg_long_plain ==
    [i \in 1..31 |-> "x"]

\* "a.B"
seg_dotted ==
    <<"a", ".", "B">>

\* ":id"
seg_colon_id ==
    <<":", "i", "d">>

\* "" (a doubled or trailing slash)
seg_empty ==
    <<>>

SegmentUniverse ==
    {seg_products, seg_blog, seg_about, seg_Team, seg_widgets,
     seg_1, seg_2, seg_123, seg_456, seg_2024, seg_07, seg_25, seg_45, seg_00,
     seg_date_ym, seg_date_ymd, seg_uuid, seg_alphaid,
     seg_long_slug, seg_short_slug, seg_long_plain, seg_dotted,
     seg_colon_id, seg_empty}

\* the crawl's own host and a foreign host
SiteHost ==
    "example.com"

OtherHost ==
    "cdn.example.net"

SeqsUpTo(S, n) ==
    UNION {[1..k -> S] : k \in 0..n}

UrlUniverse ==
    [netloc : {SiteHost, OtherHost}, path : SeqsUpTo(SegmentUniverse, MaxSegs)]

Url(host, path) ==
    [netloc |-> host, path |-> path]

(***************************************************************************)
(* Inputs of the selector: sitemap documents over a few URLs.              *)
(***************************************************************************)
u_blog_1 ==
    Url(SiteHost, <<seg_blog, seg_1>>)

u_blog_2 ==
    Url(SiteHost, <<seg_blog, seg_2>>)

u_about ==
    Url(SiteHost, <<seg_about>>)

u_widgets ==
    Url(SiteHost, <<seg_products, seg_widgets>>)

\* a <loc> of another host
u_foreign_about ==
    Url(OtherHost, <<seg_about>>)

\* a <loc> without a host
u_relative_about ==
    Url("", <<seg_about>>)

LocUniverse ==
    {u_blog_1, u_blog_2, u_about, u_widgets, u_foreign_about, u_relative_about}

sm_sitemap_xml ==
    Url(SiteHost, <<seg_sitemap_xml>>)

sm_sitemap_index_xml ==
    Url(SiteHost, <<seg_sitemap_index_xml>>)

\* the same document, named without a host
sm_hostless ==
    Url("", <<seg_sitemap_xml>>)

sm_child_1 ==
    Url(SiteHost, <<seg_sitemap_xml, seg_1>>)

sm_child_2 ==
    Url(SiteHost, <<seg_sitemap_xml, seg_2>>)

UrlSetDoc(locs) ==
    [status |-> "ok", sitemaps |-> <<>>, url_locs |-> locs, other_locs |-> <<>>]

BareLocDoc(locs) ==
    [status |-> "ok", sitemaps |-> <<>>, url_locs |-> <<>>, other_locs |-> locs]

IndexDoc(children) ==
    [status |-> "ok", sitemaps |-> children, url_locs |-> <<>>, other_locs |-> <<>>]

FailedDoc(status) ==
    [status |-> status, sitemaps |-> <<>>, url_locs |-> <<>>, other_locs |-> <<>>]

WebShapes ==
    {"urlsets", "index", "down"}

\* a web that serves locs, the first k of them in one document
WebOf(locs, k, shape) ==
    LET first == SubSeq(locs, 1, k)
        rest == SubSeq(locs, k + 1, Len(locs))
        docs ==
            IF shape = "urlsets" THEN
                <<UrlSetDoc(first), IndexDoc(<<sm_child_1, sm_child_2>>),
                  FailedDoc("exception"), UrlSetDoc(rest)>>
            ELSE IF shape = "index" THEN
                <<IndexDoc(<<sm_child_1, sm_child_2>>), FailedDoc("http_error"),
                  UrlSetDoc(first), BareLocDoc(rest)>>
            ELSE
                <<FailedDoc("exception"), BareLocDoc(locs),
                  FailedDoc("http_error"), FailedDoc("exception")>>
    IN  [sm \in {sm_sitemap_xml, sm_hostless, sm_sitemap_index_xml,
                 sm_child_1, sm_child_2} |->
            IF sm \in {sm_sitemap_xml, sm_hostless} THEN docs[1]
            ELSE IF sm = sm_sitemap_index_xml THEN docs[2]
            ELSE IF sm = sm_child_1 THEN docs[3]
            ELSE docs[4]]

Webs(max_locs) ==
    UNION {{WebOf(locs, k, shape) : k \in 0..Len(locs), shape \in WebShapes} :
              locs \in SeqsUpTo(LocUniverse, max_locs)}

\* what the navigation to /robots.txt may give
RobotsChoices ==
    {[status |-> "exception", sitemaps |-> {}],
     [status |-> "ok",
      sitemaps |-> {[http |-> TRUE, url |-> sm_child_2],
                    [http |-> FALSE, url |-> sm_child_1]}]}

MaxTypesChoices ==
    (0..MaxTypes) \cup {ScenarioMaxPages}

(***************************************************************************)
(* Inputs of crawl_website.                                                *)
(***************************************************************************)
\* URLs of pairwise different patterns
CrawlLocs ==
    <<u_blog_1, u_about, u_widgets, Url(SiteHost, <<seg_Team>>),
      Url(SiteHost, <<seg_date_ym>>), Url(SiteHost, <<seg_uuid>>),
      Url(SiteHost, <<seg_alphaid>>), Url(SiteHost, <<seg_blog, seg_date_ymd>>)>>

\* sites whose /sitemap.xml lists the first n of them
CrawlWebs(max_links) ==
    {WebOf(SubSeq(CrawlLocs, 1, n), n, "urlsets") : n \in 0..max_links}

AnchorUniverse ==
    {u_about, u_blog_1, u_foreign_about}

CrawlUrlChoices ==
    {Url(SiteHost, <<>>), sm_sitemap_xml}

CrawlMaxPagesChoices ==
    {0, 2, ScenarioMaxPages}

\* lengths of the visible text of a fetched page
TextLens ==
    {0, 300, 7000}

\* raw markup as _looks_like_spa sees it
HtmlChoices ==
    [marker : BOOLEAN,
     scripts : {SpaScriptThreshold - 1, SpaScriptThreshold, SpaScriptThreshold + 1}]

(***************************************************************************)
(* ai_service.py: the analysis orchestrator, the merge and the annotation. *)
(*                                                                         *)
(* A URL is the natural number that is its rank in string order among the  *)
(* URLs of the site, so that sorted() is the numeric order.  The corpus is *)
(* a sequence of lines, each line the sequence of the URLs the pattern     *)
(* https?://[^\s)"']+ finds in it.  An RFP document is a record            *)
(*   has_overview, total_pages_analyzed : "overview" and its page total    *)
(*   page_types : entries [name, count, example_urls, components_all,      *)
(*                components_reusable, component_count]                    *)
(*   components : entries [name, found_on_urls, reusable]                  *)
(*   pages      : entries [url, page_type, components]                     *)
(* where a key the document lacks is the empty list, "" or -1.             *)
(***************************************************************************)
\* batch_size=None
NoBatchSize == -1

\* re.findall(r'https?://[^\s)"\']+', website_context)
RECURSIVE FindUrls(_)
FindUrls(website_context) ==
    IF website_context = <<>> THEN <<>>
    ELSE Head(website_context) \o FindUrls(Tail(website_context))

\* sorted(set(lst)), lst a list of URLs
SortedSet(lst) ==
    LET S == Range(lst)
        top == IF S = {} THEN 0 ELSE CHOOSE x \in S : \A y \in S : y <= x
    IN  SelectSeq([k \in 1..top |-> k], LAMBDA k : k \in S)

\* sorted(set(crawled_urls or re.findall(..., website_context)))
UrlIndex(website_context, crawled_urls) ==
    SortedSet(IF crawled_urls # <<>> THEN crawled_urls
              ELSE FindUrls(website_context))

\* a plausible slip: the test is left out, an empty index goes on
NoUrlsErrorNever(url_count) ==
    FALSE

\* "if url_count == 0: raise ValueError"
NoUrlsError(url_count) ==
    url_count = 0

\* a plausible slip: < for <= at the thresholds
DefaultBatchSizeStrict(url_count) ==
    IF url_count < 100 THEN url_count
    ELSE IF url_count < 500 THEN 100
    ELSE IF url_count < 1000 THEN 80
    ELSE 50

\* the batch size chosen when none is supplied
DefaultBatchSize(url_count) ==
    IF url_count <= 100 THEN url_count
    ELSE IF url_count <= 500 THEN 100
    ELSE IF url_count <= 1000 THEN 80
    ELSE 50

\* batch_size after "if batch_size is None"
EffectiveBatchSize(batch_size, url_count) ==
    IF batch_size = NoBatchSize THEN DefaultBatchSize(url_count)
    ELSE batch_size

\* (url_count + batch_size - 1) // batch_size
NumBatches(url_count, batch_size) ==
    (url_count + batch_size - 1) \div batch_size

\* a plausible slip: the chunk starts one URL late
BatchUrlsSkipsFirst(urls, i, batch_size) ==
    SubSeq(urls, i * batch_size + 2, Min((i + 1) * batch_size, Len(urls)))

\* urls[start_idx:end_idx] of iteration i (from 0)
BatchUrls(urls, i, batch_size) ==
    SubSeq(urls, i * batch_size + 1, Min((i + 1) * batch_size, Len(urls)))

\* lst[:n]
Take(lst, n) ==
    IF n >= Len(lst) THEN lst ELSE SubSeq(lst, 1, n)

\* sum(e.get("count", 0) for e in page_types)
RECURSIVE SumCounts(_)
SumCounts(page_types) ==
    IF page_types = <<>> THEN 0
    ELSE Head(page_types).count + SumCounts(Tail(page_types))

\* {} : what _merge_rfp_batches returns for no batches; every key is missing
EmptyDoc ==
    [has_overview |-> FALSE, total_pages_analyzed |-> -1,
     page_types |-> <<>>, components |-> <<>>, pages |-> <<>>]

\* a page_types entry as the model or the code emits it, before annotation
PageType(name, count, example_urls) ==
    [name |-> name, count |-> count, example_urls |-> example_urls,
     components_all |-> {}, components_reusable |-> {},
     component_count |-> -1]

\* the entry _generate_rfp_batch puts in for a missing or empty page_types
UnknownPageType(pages) ==
    PageType("Unknown", Len(pages), <<>>)

\* "Ensure required fields exist"
EnsureRequiredFields(data) ==
    [data EXCEPT !.page_types =
        IF data.page_types = <<>> THEN <<UnknownPageType(data.pages)>>
        ELSE data.page_types]

\* the position in the insertion-ordered dict m of the entry named name, or 0
IndexOfName(m, name) ==
    IF \E k \in DOMAIN m : m[k].name = name
    THEN CHOOSE k \in DOMAIN m : m[k].name = name
    ELSE 0

\* [u for u in new if u not in set(existing)]
NewUrls(existing, new) ==
    SelectSeq(new, LAMBDA u : u \notin Range(existing))

\* a plausible slip: the entry is copied and then aggregated into itself too
MergePageTypeCountsFirstTwice(pt_map, pt) ==
    LET k == IndexOfName(pt_map, pt.name)
    IN  IF k = 0
        THEN Append(pt_map, [pt EXCEPT !.count = pt.count + pt.count])
        ELSE [pt_map EXCEPT
                ![k].count = pt_map[k].count + pt.count,
                ![k].example_urls =
                    pt_map[k].example_urls
                    \o Take(NewUrls(pt_map[k].example_urls, pt.example_urls), 3)]

\* one step of the page_types loop: copy a new name, aggregate a known one
MergePageType(pt_map, pt) ==
    LET k == IndexOfName(pt_map, pt.name)
    IN  IF k = 0
        THEN Append(pt_map, pt)
        ELSE [pt_map EXCEPT
                ![k].count = pt_map[k].count + pt.count,
                ![k].example_urls =
                    pt_map[k].example_urls
                    \o Take(NewUrls(pt_map[k].example_urls, pt.example_urls), 3)]

\* one step of the components loop
MergeComponent(comp_map, comp) ==
    LET k == IndexOfName(comp_map, comp.name)
    IN  IF k = 0
        THEN Append(comp_map, comp)
        ELSE [comp_map EXCEPT
                ![k].found_on_urls =
                    comp_map[k].found_on_urls
                    \o NewUrls(comp_map[k].found_on_urls, comp.found_on_urls)]

\* the page_types loop over the entries of all batches, in order
RECURSIVE MergePageTypes(_, _)
MergePageTypes(pt_map, entries) ==
    IF entries = <<>> THEN pt_map
    ELSE MergePageTypes(MergePageType(pt_map, Head(entries)), Tail(entries))

\* the components loop over the entries of all batches, in order
RECURSIVE MergeComponents(_, _)
MergeComponents(comp_map, entries) ==
    IF entries = <<>> THEN comp_map
    ELSE MergeComponents(MergeComponent(comp_map, Head(entries)), Tail(entries))

\* the concatenation of the lists field(batch) of the batches, in order
RECURSIVE ConcatPages(_)
ConcatPages(batches) ==
    IF batches = <<>> THEN <<>>
    ELSE Head(batches).pages \o ConcatPages(Tail(batches))

RECURSIVE ConcatPageTypes(_)
ConcatPageTypes(batches) ==
    IF batches = <<>> THEN <<>>
    ELSE Head(batches).page_types \o ConcatPageTypes(Tail(batches))

RECURSIVE ConcatComponents(_)
ConcatComponents(batches) ==
    IF batches = <<>> THEN <<>>
    ELSE Head(batches).components \o ConcatComponents(Tail(batches))

\* batches[0]["overview"] of a batch without the key: KeyError
MergeRaises(batches) ==
    Len(batches) > 1 /\ ~batches[1].has_overview

\* _merge_rfp_batches(batches), where it does not raise
MergeRfpBatches(batches) ==
    IF batches = <<>> THEN EmptyDoc
    ELSE IF Len(batches) = 1 THEN batches[1]
    ELSE LET pages == ConcatPages(batches)
         IN  [has_overview |-> TRUE,
              total_pages_analyzed |-> Len(pages),
              page_types |-> MergePageTypes(<<>>, ConcatPageTypes(batches)),
              components |-> MergeComponents(<<>>, ConcatComponents(batches)),
              pages |-> pages]

\* how many entries the lists of the batches before batch b hold
RECURSIVE EntriesBefore(_, _)
EntriesBefore(lists, b) ==
    IF b <= 1 THEN 0
    ELSE Len(lists[b - 1]) + EntriesBefore(lists, b - 1)

\* entry e of batch b is the one the map took by "pt.copy()" / "comp.copy()":
\* the first of its name among all entries, in order
CopiedIntoMap(entries, g) ==
    \A h \in 1..(g - 1) : entries[h].name # entries[g].name

\* the input list after _merge_rfp_batches ran.  dict.copy() is shallow, so
\* the map entry of a name shares its example_urls / found_on_urls list with
\* the batch entry it was copied from, and the extend() of lines 204 and 219
\* changes that batch entry too; "count" is rebound on the copy only
BatchesAfterMerge(batches) ==
    IF Len(batches) <= 1 THEN batches
    ELSE LET pts == ConcatPageTypes(batches)
             comps == ConcatComponents(batches)
             pt_map == MergePageTypes(<<>>, pts)
             comp_map == MergeComponents(<<>>, comps)
             page_types == [b \in DOMAIN batches |-> batches[b].page_types]
             components == [b \in DOMAIN batches |-> batches[b].components]
             PageTypesAfter(b) ==
                LET own == page_types[b]
                    before == EntriesBefore(page_types, b)
                IN  [e \in DOMAIN own |->
                        IF CopiedIntoMap(pts, before + e)
                        THEN [own[e] EXCEPT !.example_urls =
                                pt_map[IndexOfName(pt_map, own[e].name)].example_urls]
                        ELSE own[e]]
             ComponentsAfter(b) ==
                LET own == components[b]
                    before == EntriesBefore(components, b)
                IN  [e \in DOMAIN own |->
                        IF CopiedIntoMap(comps, before + e)
                        THEN [own[e] EXCEPT !.found_on_urls =
                                comp_map[IndexOfName(comp_map, own[e].name)].found_on_urls]
                        ELSE own[e]]
         IN  [b \in DOMAIN batches |->
                [batches[b] EXCEPT !.page_types = PageTypesAfter(b),
                                   !.components = ComponentsAfter(b)]]

\* s.strip(), on the names the language model is taken to emit: the only
\* name among them with surrounding whitespace is " "
Strip(s) ==
    IF s = " " THEN "" ELSE s

\* (p.get("page_type") or "Unknown").strip() or "Unknown"
PageTypeOfPage(p) ==
    IF p.page_type = "" \/ Strip(p.page_type) = "" THEN "Unknown"
    ELSE Strip(p.page_type)

\* the stripped, non-empty names of p["components"]
PageComponents(p) ==
    {Strip(p.components[k]) : k \in DOMAIN p.components} \ {""}

\* comp_to_page_types.get(cname, set()) after the loop over the pages
CompToPageTypes(pages, cname) ==
    {PageTypeOfPage(pages[i]) :
        i \in {j \in DOMAIN pages : cname \in PageComponents(pages[j])}}

\* the keys of pt_to_components, in insertion order
PageTypeOrder(pages) ==
    LET pt == [i \in DOMAIN pages |-> PageTypeOfPage(pages[i])]
        first == {i \in DOMAIN pages : \A j \in 1..(i - 1) : pt[j] # pt[i]}
    IN  [k \in 1..Cardinality(first) |->
            pt[CHOOSE i \in first : Cardinality({j \in first : j <= i}) = k]]

\* url_to_pt.get(u): the type of the last page with that url, "" for none
UrlToPageType(pages, u) ==
    LET at == {i \in DOMAIN pages : pages[i].url = u}
    IN  IF at = {} THEN ""
        ELSE PageTypeOfPage(pages[CHOOSE i \in at : \A j \in at : j <= i])

\* comp_to_page_types.get(cname, set()) after the fallback enrichment
EnrichedCompToPageTypes(data, cname) ==
    LET named == {k \in DOMAIN data.components :
                    Strip(data.components[k].name) = cname}
        found == UNION {Range(data.components[k].found_on_urls) : k \in named}
    IN  CompToPageTypes(data.pages, cname)
        \cup ({UrlToPageType(data.pages, u) : u \in found} \ {""})

\* every name a component goes by in the pages or the components list
ComponentNames(data) ==
    UNION {PageComponents(data.pages[i]) : i \in DOMAIN data.pages}
    \cup {Strip(data.components[k].name) : k \in DOMAIN data.components}

\* pt_to_components[pt_name] after the fallback enrichment
EnrichedPtToComponents(data, pt_name) ==
    {c \in ComponentNames(data) : pt_name \in EnrichedCompToPageTypes(data, c)}

\* the key of an entry in name_to_pt_obj: pt.get("name") or "Unknown"
PageTypeKey(pt) ==
    IF pt.name = "" THEN "Unknown" ELSE pt.name

\* a plausible slip: the created entry counts the pages of its type
NewPageTypeCountsPages(pt_name, pages) ==
    PageType(pt_name,
             Cardinality({i \in DOMAIN pages : PageTypeOfPage(pages[i]) = pt_name}),
             <<>>)

\* the minimal entry created for a page type the model did not emit
NewPageType(pt_name, pages) ==
    PageType(pt_name, 0, <<>>)

\* "Mark reusable on components list"
MarkReusable(comp, pages) ==
    [comp EXCEPT !.reusable =
        IF Cardinality(CompToPageTypes(pages, Strip(comp.name))) > 1
        THEN "Yes" ELSE "No"]

\* _annotate_components_and_page_types(data)
AnnotateComponentsAndPageTypes(data) ==
    LET pages == data.pages
        order == PageTypeOrder(pages)
        keys == {PageTypeKey(data.page_types[k]) : k \in DOMAIN data.page_types}
        missing == SelectSeq(order, LAMBDA t : t \notin keys)
        page_types == data.page_types
                      \o [k \in DOMAIN missing |-> NewPageType(missing[k], pages)]
        \* name_to_pt_obj keeps the last entry of a key
        indexed(k) == \A j \in DOMAIN page_types :
                         j > k => PageTypeKey(page_types[j]) # PageTypeKey(page_types[k])
        summarised(k) ==
            LET comp_set == EnrichedPtToComponents(data, PageTypeKey(page_types[k]))
                reusable_set == {c \in comp_set :
                                   Cardinality(EnrichedCompToPageTypes(data, c)) > 1}
            IN  [page_types[k] EXCEPT !.components_all = comp_set,
                                      !.components_reusable = reusable_set,
                                      !.component_count = Cardinality(comp_set)]
    IN  [data EXCEPT
            !.components = [k \in DOMAIN data.components |->
                               MarkReusable(data.components[k], pages)],
            !.page_types = [k \in DOMAIN page_types |->
                               IF indexed(k) /\ PageTypeKey(page_types[k]) \in Range(order)
                               THEN summarised(k) ELSE page_types[k]]]

(***************************************************************************)
(* What one call of the language model can come to.  _generate_rfp_batch   *)
(* either raises (the request fails, the answer is empty or no stage of    *)
(* the repair parses it) or has parsed a document; the model output is     *)
(* untrusted, so a parsed document need not keep to the prompt.            *)
(***************************************************************************)
\* a URL the site has none of
InventedUrl == 0

Page(url, page_type, components) ==
    [url |-> url, page_type |-> page_type, components |-> components]

Component(name, found_on_urls) ==
    [name |-> name, found_on_urls |-> found_on_urls, reusable |-> ""]

\* one page per URL of the batch, all of one type with the same components
Uniform(urls, page_type, components) ==
    [has_overview |-> TRUE,
     total_pages_analyzed |-> Len(urls),
     page_types |-> <<PageType(page_type, Len(urls), Take(urls, 3))>>,
     components |-> [k \in DOMAIN components |-> Component(components[k], urls)],
     pages |-> [i \in DOMAIN urls |-> Page(urls[i], page_type, components)]]

\* one page per URL, the first an Article and the others Landing pages
Mixed(urls) ==
    [has_overview |-> TRUE,
     total_pages_analyzed |-> Len(urls),
     page_types |-> <<PageType("Article", 1, Take(urls, 1)),
                      PageType("Landing", Len(urls) - 1, Take(Tail(urls), 3))>>,
     components |-> <<Component("Hero", urls)>>,
     pages |-> [i \in DOMAIN urls |->
                  Page(urls[i], IF i = 1 THEN "Article" ELSE "Landing", <<"Hero">>)]]

\* the pages are typed but the page_types list is left out
NoPageTypes(urls) ==
    [Uniform(urls, "Article", <<"Hero">>) EXCEPT !.page_types = <<>>]

\* the first URL is analysed twice and a URL is made up
Unfaithful(urls) ==
    LET pages == [i \in DOMAIN urls |-> Page(urls[i], "Article", <<"Hero">>)]
                 \o <<Page(urls[1], "Landing", <<"Footer">>),
                      Page(InventedUrl, " ", <<>>)>>
    IN  [has_overview |-> TRUE,
         total_pages_analyzed |-> Len(pages),
         page_types |-> <<PageType("Article", Len(urls), Take(urls, 3)),
                          PageType("Landing", 1, Take(urls, 1)),
                          PageType("Unknown", 1, <<InventedUrl>>)>>,
         components |-> <<Component("Hero", urls), Component("Footer", Take(urls, 1))>>,
         pages |-> pages]

\* a component is reported on every URL, but only the first page lists it
OmitsComponent(urls) ==
    [Mixed(urls) EXCEPT
        !.pages = [i \in DOMAIN urls |->
                     Page(urls[i], IF i = 1 THEN "Article" ELSE "Landing",
                          IF i = 1 THEN <<"Hero">> ELSE <<>>)]]

\* the "overview" key is left out
NoOverview(urls) ==
    [Uniform(urls, "Landing", <<"Hero", "Footer">>) EXCEPT
        !.has_overview = FALSE, !.total_pages_analyzed = -1]

\* the documents enumerated for a batch; the odd ones only for a batch of
\* at most max_odd URLs
ParsedDocuments(urls, max_odd) ==
    {Uniform(urls, "Article", <<"Hero">>)}
    \cup (IF urls # <<>> /\ Len(urls) <= max_odd
          THEN {Uniform(urls, "Landing", <<"Hero", "Footer">>),
                NoPageTypes(urls), Unfaithful(urls), NoOverview(urls)}
          ELSE {})
    \cup (IF Len(urls) >= 2 /\ Len(urls) <= max_odd
          THEN {Mixed(urls), OmitsComponent(urls)} ELSE {})

\* the outcomes of _generate_rfp_batch before its defaults: data, or raise
BatchOutcomes(urls, max_odd) ==
    {[ok |-> TRUE, data |-> d] : d \in ParsedDocuments(urls, max_odd)}
    \cup (IF Len(urls) <= max_odd THEN {[ok |-> FALSE, data |-> EmptyDoc]} ELSE {})

(***************************************************************************)
(* The arguments generate_rfp_analysis is called with.                     *)
(***************************************************************************)
\* the URLs n, n-1, .. 1: a crawl of n pages, not in sorted order
Descending(n) ==
    [i \in 1..n |-> n + 1 - i]

\* crawls of a few pages, without and with a URL listed twice
SmallCrawls ==
    {Descending(n) : n \in 0..MaxUrls}
    \cup {Descending(n) \o <<1>> : n \in 1..MaxUrls}

\* crawls of about as many pages as the batch-size thresholds
LargeCrawls ==
    {Descending(t + d) : t \in {100, 500, 1000}, d \in (0 - MaxOver)..MaxOver}

CrawledUrlsChoices ==
    SmallCrawls \cup LargeCrawls

\* the corpus of a crawl: a line with its URL for every page; for an empty
\* URL list also corpora that no crawl made
ContextChoices(crawled_urls) ==
    IF crawled_urls = <<>>
    THEN {<<>>, << <<>> >>, << <<2>>, <<>>, <<1, 2>> >>}
    ELSE {[i \in DOMAIN crawled_urls |-> <<crawled_urls[i]>>]}

BatchSizeChoices(crawled_urls) ==
    IF Len(crawled_urls) <= MaxUrls + 1
    THEN {NoBatchSize} \cup 1..MaxUrls
    ELSE {NoBatchSize}

(***************************************************************************)
(* ai_service.py: the response repair.  Text is a sequence of              *)
(* one-character strings.  A JSON value is a record [t, s, items]: a       *)
(* string ("str", its characters in s), a number ("num", its digits in s), *)
(* an array ("arr", its elements in items) or an object ("obj", its        *)
(* members in items, in insertion order, each a "mem" with the key in s    *)
(* and the value as its one item).  json.loads is modelled on the texts    *)
(* made of these: strings with the escapes \" \\ \/ \n \r \t, unsigned     *)
(* integers, arrays and objects; true, false, null, fractions, exponents   *)
(* and the other escapes occur in no input.                                *)
(***************************************************************************)
\* what \s and str.strip() take for whitespace, and JSON between tokens
Whitespace ==
    {" ", "\t", "\n", "\r"}

JsonString(chars) ==
    [t |-> "str", s |-> chars, items |-> <<>>]

JsonNumber(digits) ==
    [t |-> "num", s |-> digits, items |-> <<>>]

JsonArray(items) ==
    [t |-> "arr", s |-> <<>>, items |-> items]

JsonMember(key, value) ==
    [t |-> "mem", s |-> key, items |-> <<value>>]

JsonObject(members) ==
    [t |-> "obj", s |-> <<>>, items |-> members]

\* no value
JsonNothing ==
    [t |-> "none", s |-> <<>>, items |-> <<>>]

\* json.JSONDecodeError raised
ParseError ==
    [ok |-> FALSE, val |-> JsonNothing]

Parsed(val) ==
    [ok |-> TRUE, val |-> val]

\* a parse that stopped with an error, and one that read val up to pos - 1
ScanError ==
    [ok |-> FALSE, val |-> JsonNothing, pos |-> 0]

Scanned(val, pos) ==
    [ok |-> TRUE, val |-> val, pos |-> pos]

\* the first position from i on that holds no whitespace, Len(s) + 1 for none
SkipWhitespace(s, i) ==
    CHOOSE j \in i..(Len(s) + 1) :
        /\ j = Len(s) + 1 \/ s[j] \notin Whitespace
        /\ \A k \in i..(j - 1) : s[k] \in Whitespace

\* the characters of a string literal from position j on, after its opening
\* quote; strict: a raw control character is an error
RECURSIVE ScanString(_, _, _)
ScanString(s, j, acc) ==
    IF j > Len(s) THEN ScanError
    ELSE IF s[j] = "\"" THEN Scanned(JsonString(acc), j + 1)
    ELSE IF s[j] = "\\"
    THEN IF j + 1 > Len(s) THEN ScanError
         ELSE IF s[j + 1] \in {"\"", "\\", "/"}
         THEN ScanString(s, j + 2, Append(acc, s[j + 1]))
         ELSE IF s[j + 1] = "n" THEN ScanString(s, j + 2, Append(acc, "\n"))
         ELSE IF s[j + 1] = "r" THEN ScanString(s, j + 2, Append(acc, "\r"))
         ELSE IF s[j + 1] = "t" THEN ScanString(s, j + 2, Append(acc, "\t"))
         ELSE ScanError
    ELSE IF s[j] \in {"\n", "\r", "\t"} THEN ScanError
    ELSE ScanString(s, j + 1, Append(acc, s[j]))

\* the end of the unsigned integer at i: "0", or digits not led by "0"
NumberEnd(s, i) ==
    IF s[i] = "0" THEN i + 1
    ELSE CHOOSE j \in (i + 1)..(Len(s) + 1) :
            /\ j = Len(s) + 1 \/ ~IsDigitChar(s[j])
            /\ \A k \in i..(j - 1) : IsDigitChar(s[k])

\* d[key] = value on an insertion-ordered dict
DictSet(members, key, value) ==
    IF \E k \in DOMAIN members : members[k].s = key
    THEN [k \in DOMAIN members |->
            IF members[k].s = key THEN JsonMember(key, value) ELSE members[k]]
    ELSE Append(members, JsonMember(key, value))

\* the scanner of json: a value at position i, the rest of an array and the
\* rest of an object (i at the next element or key, whitespace skipped)
RECURSIVE ScanValue(_, _), ScanElements(_, _, _), ScanMembers(_, _, _)
ScanValue(s, i) ==
    IF i > Len(s) THEN ScanError
    ELSE IF s[i] = "\"" THEN ScanString(s, i + 1, <<>>)
    ELSE IF s[i] = "["
    THEN LET j == SkipWhitespace(s, i + 1)
         IN  IF j <= Len(s) /\ s[j] = "]" THEN Scanned(JsonArray(<<>>), j + 1)
             ELSE ScanElements(s, j, <<>>)
    ELSE IF s[i] = "{"
    THEN LET j == SkipWhitespace(s, i + 1)
         IN  IF j <= Len(s) /\ s[j] = "}" THEN Scanned(JsonObject(<<>>), j + 1)
             ELSE ScanMembers(s, j, <<>>)
    ELSE IF IsDigitChar(s[i])
    THEN LET j == NumberEnd(s, i)
         IN  Scanned(JsonNumber(SubSeq(s, i, j - 1)), j)
    ELSE ScanError

ScanElements(s, i, acc) ==
    LET r == ScanValue(s, i)
        j == SkipWhitespace(s, r.pos)
    IN  IF ~r.ok THEN ScanError
        ELSE IF j > Len(s) THEN ScanError
        ELSE IF s[j] = "]" THEN Scanned(JsonArray(Append(acc, r.val)), j + 1)
        ELSE IF s[j] = ","
        THEN ScanElements(s, SkipWhitespace(s, j + 1), Append(acc, r.val))
        ELSE ScanError

ScanMembers(s, i, acc) ==
    IF i > Len(s) \/ s[i] # "\"" THEN ScanError
    ELSE LET key == ScanString(s, i + 1, <<>>)
             colon == SkipWhitespace(s, key.pos)
             r == ScanValue(s, SkipWhitespace(s, colon + 1))
             j == SkipWhitespace(s, r.pos)
             members == DictSet(acc, key.val.s, r.val)
         IN  IF ~key.ok THEN ScanError
             ELSE IF colon > Len(s) \/ s[colon] # ":" THEN ScanError
             ELSE IF ~r.ok THEN ScanError
             ELSE IF j > Len(s) THEN ScanError
             ELSE IF s[j] = "}" THEN Scanned(JsonObject(members), j + 1)
             ELSE IF s[j] = ","
             THEN ScanMembers(s, SkipWhitespace(s, j + 1), members)
             ELSE ScanError

\* json.loads(s): one value, whitespace around it, nothing after it
JsonLoads(s) ==
    LET r == ScanValue(s, SkipWhitespace(s, 1))
    IN  IF r.ok /\ SkipWhitespace(s, r.pos) = Len(s) + 1 THEN Parsed(r.val)
        ELSE ParseError

\* the text s as a string literal's body, as json.dumps escapes it
RECURSIVE EscapeChars(_)
EscapeChars(chars) ==
    IF chars = <<>> THEN <<>>
    ELSE (IF Head(chars) \in {"\"", "\\"} THEN <<"\\", Head(chars)>>
          ELSE IF Head(chars) = "\n" THEN <<"\\", "n">>
          ELSE IF Head(chars) = "\r" THEN <<"\\", "r">>
          ELSE IF Head(chars) = "\t" THEN <<"\\", "t">>
          ELSE <<Head(chars)>>)
         \o EscapeChars(Tail(chars))

\* json.dumps(v), with its default separators ", " and ": "
RECURSIVE JsonDumps(_), JoinDumps(_)
JsonDumps(v) ==
    IF v.t = "str" THEN <<"\"">> \o EscapeChars(v.s) \o <<"\"">>
    ELSE IF v.t = "num" THEN v.s
    ELSE IF v.t = "arr" THEN <<"[">> \o JoinDumps(v.items) \o <<"]">>
    ELSE IF v.t = "obj" THEN <<"{">> \o JoinDumps(v.items) \o <<"}">>
    ELSE <<"\"">> \o EscapeChars(v.s) \o <<"\"", ":", " ">> \o JsonDumps(v.items[1])

JoinDumps(items) ==
    IF items = <<>> THEN <<>>
    ELSE IF Len(items) = 1 THEN JsonDumps(items[1])
    ELSE JsonDumps(items[1]) \o <<",", " ">> \o JoinDumps(Tail(items))

\* s.strip() and s.rstrip()
RStripText(s) ==
    LET keep == {j \in DOMAIN s : s[j] \notin Whitespace}
    IN  IF keep = {} THEN <<>>
        ELSE SubSeq(s, 1, CHOOSE j \in keep : \A k \in keep : k <= j)

StripText(s) ==
    LET r == RStripText(s)
    IN  IF r = <<>> THEN <<>> ELSE SubSeq(r, SkipWhitespace(r, 1), Len(r))

\* s.rstrip(",")
RStripCommas(s) ==
    LET keep == {j \in DOMAIN s : s[j] # ","}
    IN  IF keep = {} THEN <<>>
        ELSE SubSeq(s, 1, CHOOSE j \in keep : \A k \in keep : k <= j)

\* the backquote character, which a string of this notation cannot hold
Backquote ==
    "BACKQUOTE"

Backticks ==
    <<Backquote, Backquote, Backquote>>

\* whether sub stands in s at position i
At(s, i, sub) ==
    /\ i >= 1
    /\ i + Len(sub) - 1 <= Len(s)
    /\ SubSeq(s, i, i + Len(sub) - 1) = sub

\* the first re.sub: leading whitespace, the three backticks and, in any
\* case of letters, an optional "json"
StripOpeningFence(s) ==
    LET i == SkipWhitespace(s, 1)
    IN  IF ~At(s, i, Backticks) THEN s
        ELSE IF i + 6 <= Len(s) /\ Lower(SubSeq(s, i + 3, i + 6)) = <<"j", "s", "o", "n">>
        THEN SubSeq(s, i + 7, Len(s))
        ELSE SubSeq(s, i + 3, Len(s))

\* the second re.sub: the leftmost three backticks with only whitespace
\* after them, and that whitespace
StripClosingFence(s) ==
    LET at == {i \in DOMAIN s : /\ At(s, i, Backticks)
                                /\ \A k \in (i + 3)..Len(s) : s[k] \in Whitespace}
    IN  IF at = {} THEN s
        ELSE SubSeq(s, 1, (CHOOSE i \in at : \A k \in at : i <= k) - 1)

\* _strip_code_fences(s)
StripCodeFences(s) ==
    StripText(StripClosingFence(StripOpeningFence(s)))

\* the characters of s at the positions in keep, in order
AtPositions(s, keep) ==
    LET at == SelectSeq([i \in DOMAIN s |-> i], LAMBDA i : i \in keep)
    IN  [k \in DOMAIN at |-> s[at[k]]]

\* whether ,\s*([}\]]) matches at position i
TrailingCommaAt(s, i) ==
    /\ s[i] = ","
    /\ SkipWhitespace(s, i + 1) <= Len(s)
    /\ s[SkipWhitespace(s, i + 1)] \in {"}", "]"}

\* _remove_trailing_commas(s): every match gives way to its bracket; the
\* matches cannot overlap, there being only whitespace inside one
RemoveTrailingCommas(s) ==
    LET commas == {i \in DOMAIN s : TrailingCommaAt(s, i)}
        dropped == UNION {i..(SkipWhitespace(s, i + 1) - 1) : i \in commas}
    IN  AtPositions(s, (DOMAIN s) \ dropped)

\* one iteration of the loop of _escape_newlines_in_strings on the character
\* ch: what it appends to out, and in_str and escape after it
EscapeNewlinesStep(ch, in_str, escape) ==
    IF in_str
    THEN IF escape THEN [out |-> <<ch>>, in_str |-> TRUE, escape |-> FALSE]
         ELSE IF ch = "\\" THEN [out |-> <<ch>>, in_str |-> TRUE, escape |-> TRUE]
         ELSE IF ch = "\"" THEN [out |-> <<ch>>, in_str |-> FALSE, escape |-> FALSE]
         ELSE IF ch = "\n" \/ ch = "\r"
         THEN [out |-> <<"\\", "n">>, in_str |-> TRUE, escape |-> FALSE]
         ELSE [out |-> <<ch>>, in_str |-> TRUE, escape |-> FALSE]
    ELSE IF ch = "\"" THEN [out |-> <<ch>>, in_str |-> TRUE, escape |-> escape]
    ELSE [out |-> <<ch>>, in_str |-> FALSE, escape |-> escape]

\* the loop over s[lo..hi], halved to keep the evaluation shallow
RECURSIVE EscapeNewlinesLoop(_, _, _, _, _)
EscapeNewlinesLoop(s, lo, hi, in_str, escape) ==
    IF lo > hi THEN [out |-> <<>>, in_str |-> in_str, escape |-> escape]
    ELSE IF lo = hi THEN EscapeNewlinesStep(s[lo], in_str, escape)
    ELSE LET mid == (lo + hi) \div 2
             left == EscapeNewlinesLoop(s, lo, mid, in_str, escape)
             right == EscapeNewlinesLoop(s, mid + 1, hi, left.in_str, left.escape)
         IN  [out |-> left.out \o right.out,
              in_str |-> right.in_str, escape |-> right.escape]

\* _escape_newlines_in_strings(s)
EscapeNewlinesInStrings(s) ==
    EscapeNewlinesLoop(s, 1, Len(s), FALSE, FALSE).out

\* depth in _extract_balanced_json after the character at position i
DepthAfter(s, start, i) ==
    Cardinality({k \in start..i : s[k] = "{"})
    - Cardinality({k \in start..i : s[k] = "}"})

\* _extract_balanced_json(s): from the first "{" to the first "}" that brings
\* the depth back to 0; None is the empty text, as falsy as it
ExtractBalancedJson(s) ==
    LET opens == {i \in DOMAIN s : s[i] = "{"}
        start == CHOOSE i \in opens : \A k \in opens : i <= k
        ends == {i \in start..Len(s) : s[i] = "}" /\ DepthAfter(s, start, i) = 0}
    IN  IF opens = {} THEN <<>>
        ELSE IF ends = {} THEN <<>>
        ELSE SubSeq(s, start, CHOOSE i \in ends : \A k \in ends : i <= k)

\* re.search(r"\{[\s\S]*\}", s): from the first "{" to the last "}" after it
GreedyObject(s) ==
    LET opens == {i \in DOMAIN s : s[i] = "{"}
        start == CHOOSE i \in opens : \A k \in opens : i <= k
        closes == {i \in DOMAIN s : s[i] = "}" /\ i > start}
    IN  IF opens = {} THEN <<>>
        ELSE IF closes = {} THEN <<>>
        ELSE SubSeq(s, start, CHOOSE i \in closes : \A k \in closes : k <= i)

\* _safe_json_loads(s)
SafeJsonLoads(s) ==
    LET s2 == RemoveTrailingCommas(EscapeNewlinesInStrings(StripCodeFences(s)))
        block == ExtractBalancedJson(s2)
        match == GreedyObject(s2)
    IN  IF JsonLoads(s).ok THEN JsonLoads(s)
        ELSE IF JsonLoads(s2).ok THEN JsonLoads(s2)
        ELSE IF block # <<>>
        THEN JsonLoads(RemoveTrailingCommas(EscapeNewlinesInStrings(block)))
        ELSE IF match # <<>>
        THEN JsonLoads(RemoveTrailingCommas(EscapeNewlinesInStrings(match)))
        ELSE ParseError

\* lines 558-567 of _generate_rfp_batch: the arguments of the tool call,
\* mended when they do not end in "}" and then parsed
ParseToolCallArguments(arguments) ==
    LET args == IF EndsWith(RStripText(arguments), <<"}">>) THEN arguments
                ELSE RStripCommas(RStripText(arguments)) \o <<"]", "}", "}">>
    IN  IF JsonLoads(args).ok THEN JsonLoads(args) ELSE SafeJsonLoads(args)

(***************************************************************************)
(* The answers the repair is handed.                                       *)
(***************************************************************************)
\* string values: plain, and with commas, brackets, braces and backticks
StringValues ==
    {<<"a">>, <<"a", ",", "b">>, <<",", "]">>, <<",", " ", "}">>,
     <<"[", "{">>, Backticks}

\* objects holding such a string: directly, in an array, in an inner object
RoundTripObjects ==
    {JsonObject(<<JsonMember(<<"k">>, JsonString(v))>>) : v \in StringValues}
    \cup {JsonObject(<<JsonMember(<<"k">>,
                          JsonArray(<<JsonString(v), JsonString(<<"a">>)>>))>>) :
             v \in StringValues}
    \cup {JsonObject(<<JsonMember(<<"k">>,
                          JsonObject(<<JsonMember(<<"j">>, JsonString(v))>>)),
                       JsonMember(<<"n">>, JsonNumber(<<"1", "2">>))>>) :
             v \in StringValues}

\* the positions of s[lo..hi] outside string literals, by the quote and
\* escape state json.dumps leaves no doubt about
RECURSIVE OutsideStrings(_, _, _, _, _)
OutsideStrings(s, lo, hi, in_str, escape) ==
    IF lo > hi THEN [at |-> {}, in_str |-> in_str, escape |-> escape]
    ELSE IF lo = hi
    THEN LET st == EscapeNewlinesStep(s[lo], in_str, escape)
         IN  [at |-> IF ~in_str /\ ~st.in_str THEN {lo} ELSE {},
              in_str |-> st.in_str, escape |-> st.escape]
    ELSE LET mid == (lo + hi) \div 2
             left == OutsideStrings(s, lo, mid, in_str, escape)
             right == OutsideStrings(s, mid + 1, hi, left.in_str, left.escape)
         IN  [at |-> left.at \cup right.at,
              in_str |-> right.in_str, escape |-> right.escape]

\* the closing brackets of the non-empty arrays and objects of a json.dumps text
ClosingBrackets(text) ==
    {p \in OutsideStrings(text, 1, Len(text), FALSE, FALSE).at :
        text[p] \in {"}", "]"} /\ text[p - 1] \notin {"{", "["}}

\* text with a comma put in before position p
WithTrailingComma(text, p) ==
    SubSeq(text, 1, p - 1) \o <<",">> \o SubSeq(text, p, Len(text))

\* text in a Markdown code fence
Fenced(text) ==
    Backticks \o <<"j", "s", "o", "n", "\n">> \o text \o <<"\n">> \o Backticks

\* a model answer made from obj: fenced, with one trailing comma
FencedAnswers(obj) ==
    {Fenced(WithTrailingComma(JsonDumps(obj), p)) : p \in ClosingBrackets(JsonDumps(obj))}

\* a model answer made from obj: the JSON text with prose around it
SurroundedAnswers(obj) ==
    {<<"S", "e", "e", ":", " ">> \o JsonDumps(obj) \o <<" ", "e", "n", "d">>}

\* the characters the newline escaping tells apart, and an ordinary one
EscapeAlphabet ==
    {"\"", "\\", "\n", "\r", "a"}

\* every text of at most MaxText such characters
EscapeTexts ==
    SeqsUpTo(EscapeAlphabet, MaxText)

\* documents of the shape of the tool-call arguments, with short names:
\* an overview object, a pages array of objects and a recommendations array
ToolCallDocuments ==
    {JsonObject(<<
        JsonMember(<<"o">>, JsonObject(<<JsonMember(<<"i">>, JsonString(<<"x">>)),
                                         JsonMember(<<"n">>, JsonNumber(<<"1">>))>>)),
        JsonMember(<<"p">>, JsonArray(<<JsonObject(<<
            JsonMember(<<"u">>, JsonString(<<"a">>)),
            JsonMember(<<"c">>, JsonArray(<<JsonString(<<"h">>)>>))>>)>>)),
        JsonMember(<<"r">>, JsonArray(<<JsonString(<<"s">>)>>))>>),
     JsonObject(<<
        JsonMember(<<"r">>, JsonArray(<<JsonString(<<"s">>), JsonString(<<"t">>)>>))>>),
     JsonObject(<<
        JsonMember(<<"o">>, JsonObject(<<
            JsonMember(<<"c">>, JsonArray(<<JsonString(<<"h">>),
                                            JsonString(<<"g">>)>>))>>))>>)}

\* the arguments cut short: every proper, non-empty prefix
TruncatedArguments(obj) ==
    {SubSeq(JsonDumps(obj), 1, k) : k \in 1..(Len(JsonDumps(obj)) - 1)}

(***************************************************************************)
(* State.                                                                  *)
(***************************************************************************)
VARIABLES
    n_pc,         \* _normalize_pattern: "call" before, "return" after
    n_url,        \* its url argument
    n_base,       \* its base_netloc argument
    n_pattern,    \* its return value
    web,          \* the sitemap documents of the site
    robots,       \* what /robots.txt gives
    s_pc,         \* the selector: "call" before, "return" after
    s_fn,         \* "given": _representative_urls_from_given_sitemap,
                  \* "site": _representative_urls_from_sitemaps
    s_arg,        \* its sitemap_url / base_url argument
    s_max_types,  \* its max_types argument
    s_sitemaps,   \* the sitemaps it iterated, in order
    s_result,     \* its return value
    c_pc,         \* crawl_website: "call", "navigated", "fetching",
                  \* "returned" or "raised"
    c_url,        \* its url argument
    c_max_pages,  \* its max_pages argument
    c_concurrency,\* its concurrency argument
    c_render_js,  \* its render_js argument
    links_to_crawl,
    visited,
    sem,          \* the free permits of the semaphore
    t_pc,         \* per fetch task: "pending" (not past "async with sem"),
                  \* "static" (awaiting aio_sess.get), "parsed" (the static
                  \* response is read and its text extracted), "render" (awaiting
                  \* pg.goto), or the return it took: "returned_visited",
                  \* "returned_status", "returned_text", "returned_exception"
    results,      \* per fetch task: None or the text it returned
    browser,      \* "none", "open", "closed" (browser.close()) or "stopped"
                  \* (the playwright context manager exited on an exception)
    aio_sess,     \* "none", "open" or "closed"
    open_ctx,     \* the tasks whose browsing context is open
    t_resp,       \* per fetch task: the html and text of its static response
                  \* while the task is at "parsed", NoResponse otherwise
    collected_text,
    crawled_urls,
    c_corpus,     \* the corpus crawl_website returns
    a_pc,         \* generate_rfp_analysis: "call", "single" (before the call
                  \* of line 296), "loop", "returned" or "raised"
    a_context,    \* its website_context argument
    a_crawled,    \* its crawled_urls argument
    a_batch_size, \* its batch_size argument
    a_urls,       \* urls
    a_size,       \* batch_size once chosen
    a_i,          \* the iterations of the batch loop done
    a_calls,      \* the urls argument of every _generate_rfp_batch call
    a_batches,    \* batches
    a_result,     \* the document it returns
    a_error,      \* "" or what it raised
    r_pc,         \* the parse of a model answer: "call" before, "return" after
    r_fn,         \* "_safe_json_loads", or "tool_call" for lines 556-567
    r_obj,        \* the JSON value the answer was made from
    r_text,       \* the answer
    r_out,        \* what the parse gave: a value, or a raised JSONDecodeError
    f_pc,         \* _filter_context_by_urls: "call" before, "return" after
    f_context,    \* its context argument
    f_urls,       \* its urls argument
    f_out,        \* the text it returns
    x_pc,         \* _extract_urls_from_sitemap: "call", "running", "returned"
    x_root,       \* the sitemap_url of the outermost call
    x_stack,      \* the calls under way, outermost first: the sitemap_url of
                  \* each, where it stands, the <sitemap> entries it has yet
                  \* to expand and its urls list
    x_overflow,   \* a call was refused by the interpreter's recursion limit
    x_result      \* what the outermost call returned

a_args ==
    <<a_context, a_crawled, a_batch_size>>

a_vars ==
    <<a_pc, a_context, a_crawled, a_batch_size, a_urls, a_size, a_i, a_calls,
      a_batches, a_result, a_error>>

r_vars ==
    <<r_pc, r_fn, r_obj, r_text, r_out>>

f_vars ==
    <<f_pc, f_context, f_urls, f_out>>

x_vars ==
    <<x_pc, x_root, x_stack, x_overflow, x_result>>

n_vars ==
    <<n_pc, n_url, n_base, n_pattern>>

env_vars ==
    <<web, robots>>

s_vars ==
    <<s_pc, s_fn, s_arg, s_max_types, s_sitemaps, s_result>>

c_args ==
    <<c_url, c_max_pages, c_concurrency, c_render_js>>

c_out ==
    <<collected_text, crawled_urls, c_corpus>>

c_vars ==
    <<c_pc, c_url, c_max_pages, c_concurrency, c_render_js, links_to_crawl,
      visited, sem, t_pc, results, browser, aio_sess, open_ctx, t_resp,
      collected_text, crawled_urls, c_corpus>>

vars ==
    <<n_pc, n_url, n_base, n_pattern, web, robots,
      s_pc, s_fn, s_arg, s_max_types, s_sitemaps, s_result,
      c_pc, c_url, c_max_pages, c_concurrency, c_render_js, links_to_crawl,
      visited, sem, t_pc, results, browser, aio_sess, open_ctx, t_resp,
      collected_text, crawled_urls, c_corpus,
      a_pc, a_context, a_crawled, a_batch_size, a_urls, a_size, a_i, a_calls,
      a_batches, a_result, a_error,
      r_pc, r_fn, r_obj, r_text, r_out,
      f_pc, f_context, f_urls, f_out,
      x_pc, x_root, x_stack, x_overflow, x_result>>

\* the parts of the state an operation that is not running leaves at rest
NormalizeIdle ==
    /\ n_pc = "idle"
    /\ n_url = Url(SiteHost, <<>>)
    /\ n_base = SiteHost
    /\ n_pattern = <<>>

NoWeb ==
    /\ web = <<>>
    /\ robots = [status |-> "exception", sitemaps |-> {}]

SelectorIdle ==
    /\ s_pc = "idle"
    /\ s_fn = "given"
    /\ s_arg = sm_sitemap_xml
    /\ s_max_types = 0
    /\ s_sitemaps = <<>>
    /\ s_result = <<>>

\* crawl_website before its first statement, whatever its arguments
CrawlNotStarted ==
    /\ links_to_crawl = <<>>
    /\ visited = {}
    /\ sem = 0
    /\ t_pc = <<>>
    /\ results = <<>>
    /\ browser = "none"
    /\ aio_sess = "none"
    /\ open_ctx = {}
    /\ t_resp = <<>>
    /\ collected_text = <<>>
    /\ crawled_urls = <<>>
    /\ c_corpus = <<>>

CrawlIdle ==
    /\ c_pc = "idle"
    /\ c_url = Url(SiteHost, <<>>)
    /\ c_max_pages = 0
    /\ c_concurrency = 1
    /\ c_render_js = FALSE
    /\ CrawlNotStarted

\* generate_rfp_analysis before its first statement, whatever its arguments
AnalysisNotStarted ==
    /\ a_urls = <<>>
    /\ a_size = 0
    /\ a_i = 0
    /\ a_calls = <<>>
    /\ a_batches = <<>>
    /\ a_result = EmptyDoc
    /\ a_error = ""

AnalysisIdle ==
    /\ a_pc = "idle"
    /\ a_context = <<>>
    /\ a_crawled = <<>>
    /\ a_batch_size = NoBatchSize
    /\ AnalysisNotStarted

FilterIdle ==
    /\ f_pc = "idle"
    /\ f_context = <<>>
    /\ f_urls = <<>>
    /\ f_out = <<>>

ExpandIdle ==
    /\ x_pc = "idle"
    /\ x_root = sm_sitemap_xml
    /\ x_stack = <<>>
    /\ x_overflow = FALSE
    /\ x_result = <<>>

RepairIdle ==
    /\ r_pc = "idle"
    /\ r_fn = "_safe_json_loads"
    /\ r_obj = JsonNothing
    /\ r_text = <<>>
    /\ r_out = ParseError

(***************************************************************************)
(* _normalize_pattern as an operation.                                     *)
(***************************************************************************)
NormalizeInit ==
    /\ n_pc = "call"
    /\ n_url \in UrlUniverse
    /\ n_base \in {SiteHost, OtherHost}
    /\ n_pattern = <<>>
    /\ NoWeb
    /\ SelectorIdle
    /\ CrawlIdle
    /\ AnalysisIdle
    /\ RepairIdle
    /\ FilterIdle
    /\ ExpandIdle

Normalize ==
    /\ n_pc = "call"
    /\ n_pattern' = NormalizePattern(n_url, n_base)
    /\ n_pc' = "return"
    /\ UNCHANGED <<n_url, n_base>>
    /\ UNCHANGED <<env_vars, s_vars, c_vars, a_vars, r_vars, f_vars, x_vars>>

NormalizeNext ==
    Normalize

SpecNormalize ==
    NormalizeInit /\ [][NormalizeNext]_vars

(***************************************************************************)
(* The two selector functions as operations.                               *)
(***************************************************************************)
SelectInit ==
    /\ web \in Webs(MaxLocs)
    /\ s_pc = "call"
    /\ s_fn \in {"given", "site"}
    /\ robots \in IF s_fn = "site" THEN RobotsChoices
                  ELSE {[status |-> "exception", sitemaps |-> {}]}
    /\ s_arg \in IF s_fn = "given"
                 THEN {sm_sitemap_xml, sm_hostless}
                 ELSE {Url(SiteHost, <<>>)}
    /\ s_max_types \in MaxTypesChoices
    /\ s_sitemaps = <<>>
    /\ s_result = <<>>
    /\ NormalizeIdle
    /\ CrawlIdle
    /\ AnalysisIdle
    /\ RepairIdle
    /\ FilterIdle
    /\ ExpandIdle

SelectFromGivenSitemap ==
    /\ s_pc = "call"
    /\ s_fn = "given"
    /\ s_sitemaps' = <<s_arg>>
    /\ s_result' = RepresentativeUrlsFromGivenSitemap(web, s_arg, s_max_types)
    /\ s_pc' = "return"
    /\ UNCHANGED <<s_fn, s_arg, s_max_types>>
    /\ UNCHANGED <<env_vars, n_vars, c_vars, a_vars, r_vars, f_vars, x_vars>>

SelectFromSitemaps ==
    /\ s_pc = "call"
    /\ s_fn = "site"
    /\ \E sitemap_list \in ListOrders(DiscoverSitemapUrls(robots, s_arg)) :
          /\ s_sitemaps' = sitemap_list
          /\ s_result' = RepresentativeUrlsFromSitemaps(web, sitemap_list,
                                                        s_arg, s_max_types)
    /\ s_pc' = "return"
    /\ UNCHANGED <<s_fn, s_arg, s_max_types>>
    /\ UNCHANGED <<env_vars, n_vars, c_vars, a_vars, r_vars, f_vars, x_vars>>

SelectNext ==
    \/ SelectFromGivenSitemap
    \/ SelectFromSitemaps

SpecSelect ==
    SelectInit /\ [][SelectNext]_vars

(***************************************************************************)
(* crawl_website.  The fetch tasks run on one event loop: a task runs      *)
(* without interruption from one await to the next, so each action below   *)
(* is the code between two awaits.  The order in which waiting tasks get   *)
(* a permit is left open.                                                  *)
(***************************************************************************)
CrawlStart(concurrencies, max_links) ==
    /\ c_pc = "call"
    /\ c_url \in CrawlUrlChoices
    /\ c_max_pages \in CrawlMaxPagesChoices
    /\ c_concurrency \in concurrencies
    /\ c_render_js \in BOOLEAN
    /\ web \in CrawlWebs(max_links)
    /\ robots = CHOOSE r \in RobotsChoices :
                   r.status = IF IsSitemapUrl(c_url) THEN "exception" ELSE "ok"
    /\ CrawlNotStarted
    /\ NormalizeIdle
    /\ SelectorIdle
    /\ AnalysisIdle
    /\ RepairIdle
    /\ FilterIdle
    /\ ExpandIdle

\* crawls of small sites under every concurrency
CrawlInit ==
    CrawlStart(1..MaxConcurrency, MaxLinks)

\* crawls of larger sites with one fetch at a time
CrawlSerialInit ==
    CrawlStart({1}, MaxPages)

Tasks ==
    1..Len(links_to_crawl)

\* browser launch and "await page.goto(url, timeout=60000)" succeed
CrawlGoto ==
    /\ c_pc = "call"
    /\ c_pc' = "navigated"
    /\ browser' = "open"
    /\ UNCHANGED <<c_args, links_to_crawl, visited, sem, t_pc, results,
                   aio_sess, open_ctx, c_out>>
    /\ UNCHANGED t_resp
    /\ UNCHANGED <<env_vars, n_vars, s_vars, a_vars, r_vars, f_vars, x_vars>>

\* "await page.goto(url, timeout=60000)" raises: nothing catches it, the
\* "async with async_playwright()" block exits and crawl_website raises
CrawlGotoRaises ==
    /\ c_pc = "call"
    /\ c_pc' = "raised"
    /\ browser' = "stopped"
    /\ UNCHANGED <<c_args, links_to_crawl, visited, sem, t_pc, results,
                   aio_sess, open_ctx, c_out>>
    /\ UNCHANGED t_resp
    /\ UNCHANGED <<env_vars, n_vars, s_vars, a_vars, r_vars, f_vars, x_vars>>

\* the representative links, for the order in which the discovered sitemaps
\* are iterated
CrawlRepresentativeLinks(sitemap_list) ==
    IF IsSitemapUrl(c_url)
    THEN RepresentativeUrlsFromGivenSitemap(web, c_url, c_max_pages)
    ELSE RepresentativeUrlsFromSitemaps(web, sitemap_list, c_url, c_max_pages)

\* from the selection of links to the creation of the fetch tasks
CrawlSelectLinks ==
    /\ c_pc = "navigated"
    /\ \E sitemap_list \in ListOrders(DiscoverSitemapUrls(robots, c_url)),
          anchors \in SeqsUpTo(AnchorUniverse, MaxAnchors) :
          links_to_crawl' = LinksToCrawl(CrawlRepresentativeLinks(sitemap_list),
                                         anchors, c_url, c_max_pages)
    /\ sem' = c_concurrency
    /\ aio_sess' = IF c_render_js THEN "none" ELSE "open"
    /\ t_pc' = [i \in 1..Len(links_to_crawl') |-> "pending"]
    /\ results' = [i \in 1..Len(links_to_crawl') |-> None]
    /\ t_resp' = [i \in 1..Len(links_to_crawl') |-> NoResponse]
    /\ c_pc' = "fetching"
    /\ UNCHANGED <<c_args, visited, browser, open_ctx, c_out>>
    /\ UNCHANGED <<env_vars, n_vars, s_vars, a_vars, r_vars, f_vars, x_vars>>

\* task i gets a permit and finds its URL visited: return None
FetchSkipVisited(i) ==
    /\ c_pc = "fetching"
    /\ t_pc[i] = "pending"
    /\ sem > 0
    /\ links_to_crawl[i] \in visited
    /\ t_pc' = [t_pc EXCEPT ![i] = "returned_visited"]
    /\ results' = [results EXCEPT ![i] = None]
    /\ UNCHANGED <<c_pc, c_args, links_to_crawl, visited, sem, browser,
                   aio_sess, open_ctx, c_out>>
    /\ UNCHANGED t_resp
    /\ UNCHANGED <<env_vars, n_vars, s_vars, a_vars, r_vars, f_vars, x_vars>>

\* task i gets a permit, marks its URL visited and starts its request: the
\* static one, or a navigation in a browsing context of its own
FetchAdmit(i) ==
    /\ c_pc = "fetching"
    /\ t_pc[i] = "pending"
    /\ sem > 0
    /\ links_to_crawl[i] \notin visited
    /\ sem' = SemAfterAcquire(sem)
    /\ visited' = VisitedAfterAdmit(visited, links_to_crawl[i])
    /\ t_pc' = [t_pc EXCEPT ![i] = IF c_render_js THEN "render" ELSE "static"]
    /\ open_ctx' = IF c_render_js THEN open_ctx \cup {i} ELSE open_ctx
    /\ UNCHANGED <<c_pc, c_args, links_to_crawl, results, browser, aio_sess, c_out>>
    /\ UNCHANGED t_resp
    /\ UNCHANGED <<env_vars, n_vars, s_vars, a_vars, r_vars, f_vars, x_vars>>

\* a plausible slip: the exception leaves fetch and gather, and crawl_website
\* raises
FetchRaisesUncaught(i) ==
    /\ c_pc = "fetching"
    /\ t_pc[i] \in {"static", "render"}
    /\ t_pc' = [t_pc EXCEPT ![i] = "returned_exception"]
    /\ sem' = SemAfterRelease(sem)
    /\ c_pc' = "raised"
    /\ browser' = "stopped"
    /\ UNCHANGED <<c_args, links_to_crawl, visited, results, aio_sess,
                   open_ctx, c_out>>
    /\ UNCHANGED t_resp
    /\ UNCHANGED <<env_vars, n_vars, s_vars, a_vars, r_vars, f_vars, x_vars>>

\* the request or the navigation of task i raises (a timeout, a navigation or
\* client error): "except Exception" logs it and returns None; a browsing
\* context the task had opened stays open
FetchRaises(i) ==
    /\ c_pc = "fetching"
    /\ t_pc[i] \in {"static", "render"}
    /\ t_pc' = [t_pc EXCEPT ![i] = "returned_exception"]
    /\ results' = [results EXCEPT ![i] = None]
    /\ sem' = SemAfterRelease(sem)
    /\ UNCHANGED <<c_pc, c_args, links_to_crawl, visited, browser, aio_sess,
                   open_ctx, c_out>>
    /\ UNCHANGED t_resp
    /\ UNCHANGED <<env_vars, n_vars, s_vars, a_vars, r_vars, f_vars, x_vars>>

\* the static request of task i is answered with a status other than 200
FetchStaticStatus(i) ==
    /\ c_pc = "fetching"
    /\ t_pc[i] = "static"
    /\ t_pc' = [t_pc EXCEPT ![i] = "returned_status"]
    /\ results' = [results EXCEPT ![i] = None]
    /\ sem' = SemAfterRelease(sem)
    /\ UNCHANGED <<c_pc, c_args, links_to_crawl, visited, browser, aio_sess,
                   open_ctx, c_out>>
    /\ UNCHANGED t_resp
    /\ UNCHANGED <<env_vars, n_vars, s_vars, a_vars, r_vars, f_vars, x_vars>>

\* the static request of task i is answered with status 200: the body is read
\* and its text extracted
FetchStaticOk(i) ==
    /\ c_pc = "fetching"
    /\ t_pc[i] = "static"
    /\ \E text_len \in TextLens, html \in HtmlChoices :
          t_resp' = [t_resp EXCEPT ![i] = StaticResponse(html, text_len)]
    /\ t_pc' = [t_pc EXCEPT ![i] = "parsed"]
    /\ UNCHANGED <<c_pc, c_args, links_to_crawl, visited, sem, results,
                   browser, aio_sess, open_ctx, c_out>>
    /\ UNCHANGED <<env_vars, n_vars, s_vars, a_vars, r_vars, f_vars, x_vars>>

\* task i has the static text: return it, or open a browsing context and
\* navigate when the page looks like a SPA
FetchStaticDecide(i) ==
    /\ c_pc = "fetching"
    /\ t_pc[i] = "parsed"
    /\ IF LooksLikeSpa(t_resp[i], t_resp[i].text_len)
       THEN /\ t_pc' = [t_pc EXCEPT ![i] = "render"]
            /\ open_ctx' = open_ctx \cup {i}
            /\ UNCHANGED <<results, sem>>
       ELSE /\ t_pc' = [t_pc EXCEPT ![i] = "returned_text"]
            /\ results' = [results EXCEPT ![i] = ClipPageText(i, t_resp[i].text_len)]
            /\ sem' = SemAfterRelease(sem)
            /\ UNCHANGED open_ctx
    /\ t_resp' = [t_resp EXCEPT ![i] = NoResponse]
    /\ UNCHANGED <<c_pc, c_args, links_to_crawl, visited, browser, aio_sess, c_out>>
    /\ UNCHANGED <<env_vars, n_vars, s_vars, a_vars, r_vars, f_vars, x_vars>>

\* the navigation of task i ends: extract, close the context, return the text
FetchRenderOk(i) ==
    /\ c_pc = "fetching"
    /\ t_pc[i] = "render"
    /\ \E text_len \in TextLens :
          results' = [results EXCEPT ![i] = ClipPageText(i, text_len)]
    /\ t_pc' = [t_pc EXCEPT ![i] = "returned_text"]
    /\ open_ctx' = open_ctx \ {i}
    /\ sem' = SemAfterRelease(sem)
    /\ UNCHANGED <<c_pc, c_args, links_to_crawl, visited, browser, aio_sess, c_out>>
    /\ UNCHANGED t_resp
    /\ UNCHANGED <<env_vars, n_vars, s_vars, a_vars, r_vars, f_vars, x_vars>>

TaskReturned(i) ==
    t_pc[i] \in {"returned_visited", "returned_status", "returned_text",
                 "returned_exception"}

\* "\n".join(collected_text)[:20000]
Corpus(texts) ==
    TakeChars(JoinLines(texts), CorpusCharBudget)

\* gather returns: collect the results, close the browser and the session,
\* return the corpus and the URLs
CrawlReturn ==
    /\ c_pc = "fetching"
    /\ \A i \in Tasks : TaskReturned(i)
    /\ collected_text' = CollectTexts(results, 1)
    /\ crawled_urls' = CollectUrls(results, links_to_crawl, 1)
    /\ c_corpus' = Corpus(collected_text')
    /\ browser' = "closed"
    /\ aio_sess' = IF aio_sess = "open" THEN "closed" ELSE aio_sess
    /\ c_pc' = "returned"
    /\ UNCHANGED <<c_args, links_to_crawl, visited, sem, t_pc, results, open_ctx>>
    /\ UNCHANGED t_resp
    /\ UNCHANGED <<env_vars, n_vars, s_vars, a_vars, r_vars, f_vars, x_vars>>

CrawlNext ==
    \/ CrawlGoto
    \/ CrawlGotoRaises
    \/ CrawlSelectLinks
    \/ \E i \in Tasks : FetchSkipVisited(i)
    \/ \E i \in Tasks : FetchAdmit(i)
    \/ \E i \in Tasks : FetchRaises(i)
    \/ \E i \in Tasks : FetchStaticStatus(i)
    \/ \E i \in Tasks : FetchStaticOk(i)
    \/ \E i \in Tasks : FetchStaticDecide(i)
    \/ \E i \in Tasks : FetchRenderOk(i)
    \/ CrawlReturn

SpecCrawl ==
    CrawlInit /\ [][CrawlNext]_vars

SpecCrawlSerial ==
    CrawlSerialInit /\ [][CrawlNext]_vars

\* crawls of the smallest sites that make a task wait for a permit
CrawlLiveInit ==
    CrawlStart(1..MaxConcurrency, MaxLiveLinks)

\* crawl_website on an event loop that runs every task that can run, with
\* network operations that return, answer or time out
SpecCrawlLive ==
    CrawlLiveInit /\ [][CrawlNext]_vars /\ WF_vars(CrawlNext)

\* the call is cancelled while it awaits gather with a fetch still under way
\* (asyncio.run cancels the main task on an interrupt): gather cancels the fetch tasks that have not
\* returned, "async with sem" hands their permits back, CancelledError leaves
\* crawl_website through the playwright context manager, which stops the
\* browser; the statements after gather are not run
CrawlCancelled ==
    /\ c_pc = "fetching"
    /\ \E i \in Tasks : ~ TaskReturned(i)
    /\ t_pc' = [i \in Tasks |-> IF TaskReturned(i) THEN t_pc[i] ELSE "cancelled"]
    /\ sem' = sem + Cardinality({i \in Tasks : t_pc[i] \in {"static", "parsed", "render"}})
    /\ t_resp' = [i \in Tasks |-> NoResponse]
    /\ browser' = "stopped"
    /\ c_pc' = "raised"
    /\ UNCHANGED <<c_args, links_to_crawl, visited, results, aio_sess,
                   open_ctx, c_out>>
    /\ UNCHANGED <<env_vars, n_vars, s_vars, a_vars, r_vars, f_vars, x_vars>>

\* "await browser.close()" raises after the results were collected: the
\* exception leaves through the playwright context manager, and the
\* statements after the "async with" block are not run
CrawlCloseRaises ==
    /\ c_pc = "fetching"
    /\ \A i \in Tasks : TaskReturned(i)
    /\ collected_text' = CollectTexts(results, 1)
    /\ crawled_urls' = CollectUrls(results, links_to_crawl, 1)
    /\ browser' = "stopped"
    /\ c_pc' = "raised"
    /\ UNCHANGED <<c_args, links_to_crawl, visited, sem, t_pc, results,
                   aio_sess, open_ctx, t_resp, c_corpus>>
    /\ UNCHANGED <<env_vars, n_vars, s_vars, a_vars, r_vars, f_vars, x_vars>>

\* crawl_website with the exits that an exception after the fetch phase began
\* can take
CrawlInterruptedNext ==
    \/ CrawlNext
    \/ CrawlCancelled
    \/ CrawlCloseRaises

SpecCrawlInterrupted ==
    CrawlInit /\ [][CrawlInterruptedNext]_vars

(***************************************************************************)
(* generate_rfp_analysis as an operation: a step up to the first call of   *)
(* the language model, then a step per call.                               *)
(***************************************************************************)
AnalyzeInit ==
    /\ a_pc = "call"
    /\ a_crawled \in CrawledUrlsChoices
    /\ a_context \in ContextChoices(a_crawled)
    /\ a_batch_size \in BatchSizeChoices(a_crawled)
    /\ AnalysisNotStarted
    /\ RepairIdle
    /\ FilterIdle
    /\ ExpandIdle
    /\ NormalizeIdle
    /\ NoWeb
    /\ SelectorIdle
    /\ CrawlIdle

\* lines 273-301: the URL index, the input error, the batch size
AnalyzeStart ==
    /\ a_pc = "call"
    /\ LET urls == UrlIndex(a_context, a_crawled)
           url_count == Len(urls)
           batch_size == EffectiveBatchSize(a_batch_size, url_count)
       IN  /\ a_urls' = urls
           /\ IF NoUrlsError(url_count)
              THEN /\ a_pc' = "raised"
                   /\ a_error' = "NoUrls"
                   /\ a_size' = a_size
              ELSE /\ a_pc' = IF url_count <= batch_size THEN "single" ELSE "loop"
                   /\ a_error' = ""
                   /\ a_size' = batch_size
    /\ UNCHANGED <<a_args, a_i, a_calls, a_batches, a_result>>
    /\ UNCHANGED <<r_vars, env_vars, n_vars, s_vars, c_vars, f_vars, x_vars>>

\* line 296: the one call of the single-batch path, its result returned as is
AnalyzeSingleBatch ==
    /\ a_pc = "single"
    /\ \E r \in BatchOutcomes(a_urls, MaxUrls) :
          /\ a_calls' = Append(a_calls, a_urls)
          /\ IF r.ok
             THEN /\ a_pc' = "returned"
                  /\ a_result' = EnsureRequiredFields(r.data)
                  /\ a_error' = ""
             ELSE /\ a_pc' = "raised"
                  /\ a_result' = a_result
                  /\ a_error' = "BatchRaised"
    /\ UNCHANGED <<a_args, a_urls, a_size, a_i, a_batches>>
    /\ UNCHANGED <<r_vars, env_vars, n_vars, s_vars, c_vars, f_vars, x_vars>>

\* lines 304-330: one iteration of the loop; after the last one the merge,
\* the annotation and the return
AnalyzeBatch ==
    /\ a_pc = "loop"
    /\ a_i < NumBatches(Len(a_urls), a_size)
    /\ LET batch_urls == BatchUrls(a_urls, a_i, a_size)
       IN  \E r \in BatchOutcomes(batch_urls, MaxUrls) :
             LET batches == IF r.ok
                            THEN Append(a_batches, EnsureRequiredFields(r.data))
                            ELSE a_batches
             IN  /\ a_calls' = Append(a_calls, batch_urls)
                 /\ a_i' = a_i + 1
                 /\ IF a_i + 1 < NumBatches(Len(a_urls), a_size)
                    THEN /\ a_batches' = batches
                         /\ UNCHANGED <<a_pc, a_result, a_error>>
                    ELSE IF batches = <<>>
                    THEN /\ a_pc' = "raised"
                         /\ a_error' = "AllBatchesFailed"
                         /\ a_result' = a_result
                         /\ a_batches' = batches
                    ELSE IF MergeRaises(batches)
                    THEN /\ a_pc' = "raised"
                         /\ a_error' = "KeyError"
                         /\ a_result' = a_result
                         /\ a_batches' = batches
                    ELSE /\ a_pc' = "returned"
                         /\ a_error' = ""
                         /\ a_result' = AnnotateComponentsAndPageTypes(
                                            MergeRfpBatches(batches))
                         /\ a_batches' = BatchesAfterMerge(batches)
    /\ UNCHANGED <<a_args, a_urls, a_size>>
    /\ UNCHANGED <<r_vars, env_vars, n_vars, s_vars, c_vars, f_vars, x_vars>>

AnalyzeNext ==
    \/ AnalyzeStart
    \/ AnalyzeSingleBatch
    \/ AnalyzeBatch

SpecAnalyze ==
    AnalyzeInit /\ [][AnalyzeNext]_vars

(***************************************************************************)
(* The parse of one model answer as an operation.                          *)
(***************************************************************************)
RepairInit ==
    /\ r_pc = "call"
    /\ r_fn \in {"_safe_json_loads", "tool_call", "_escape_newlines_in_strings"}
    /\ r_obj \in IF r_fn = "tool_call" THEN ToolCallDocuments
                 ELSE IF r_fn = "_safe_json_loads" THEN RoundTripObjects
                 ELSE {JsonNothing}
    /\ r_text \in IF r_fn = "tool_call" THEN TruncatedArguments(r_obj)
                  ELSE IF r_fn = "_safe_json_loads"
                  THEN FencedAnswers(r_obj) \cup SurroundedAnswers(r_obj)
                  ELSE EscapeTexts
    /\ r_out = ParseError
    /\ FilterIdle
    /\ ExpandIdle
    /\ AnalysisIdle
    /\ NormalizeIdle
    /\ NoWeb
    /\ SelectorIdle
    /\ CrawlIdle

\* _safe_json_loads(r_text)
CallSafeJsonLoads ==
    /\ r_pc = "call"
    /\ r_fn = "_safe_json_loads"
    /\ r_out' = SafeJsonLoads(r_text)
    /\ r_pc' = "return"
    /\ UNCHANGED <<r_fn, r_obj, r_text>>
    /\ UNCHANGED <<a_vars, env_vars, n_vars, s_vars, c_vars, f_vars, x_vars>>

\* lines 556-567 with r_text for tool_calls[0].function.arguments
ParseToolCall ==
    /\ r_pc = "call"
    /\ r_fn = "tool_call"
    /\ r_out' = ParseToolCallArguments(r_text)
    /\ r_pc' = "return"
    /\ UNCHANGED <<r_fn, r_obj, r_text>>
    /\ UNCHANGED <<a_vars, env_vars, n_vars, s_vars, c_vars, f_vars, x_vars>>

\* _escape_newlines_in_strings(r_text); the text it returns is kept as a
\* string value
CallEscapeNewlines ==
    /\ r_pc = "call"
    /\ r_fn = "_escape_newlines_in_strings"
    /\ r_out' = Parsed(JsonString(EscapeNewlinesInStrings(r_text)))
    /\ r_pc' = "return"
    /\ UNCHANGED <<r_fn, r_obj, r_text>>
    /\ UNCHANGED <<a_vars, env_vars, n_vars, s_vars, c_vars, f_vars, x_vars>>

RepairNext ==
    \/ CallSafeJsonLoads
    \/ ParseToolCall
    \/ CallEscapeNewlines

SpecRepair ==
    RepairInit /\ [][RepairNext]_vars

(***************************************************************************)
(* Properties of _normalize_pattern.                                       *)
(***************************************************************************)
\* the positions of url's path that hold an all-digit segment
DigitPositions(url) ==
    {i \in 1..Len(url.path) : IsDigitStr(url.path[i])}

DigitSegments ==
    {s \in SegmentUniverse : IsDigitStr(s)}

\* the URLs that differ from url only in the numbers of its all-digit segments
DigitVariants(url) ==
    {[url EXCEPT !.path = [i \in 1..Len(url.path) |->
                              IF i \in DOMAIN f THEN f[i] ELSE url.path[i]]] :
        f \in [DigitPositions(url) -> DigitSegments]}

\* the last segment of url is hyphenated and longer than 15 characters
EndsInLongHyphenatedSlug(url) ==
    LET segments == Segments(url.path)
    IN  /\ segments # <<>>
        /\ \E i \in 1..Len(segments[Len(segments)]) :
              segments[Len(segments)][i] = "-"
        /\ Len(segments[Len(segments)]) > 15

C4_Expected(s, is_last) ==
    IF Digits4Match(s) THEN TokYear
    ELSE IF Digits2Match(s) THEN
        (LET num == 10 * DigitValue(s[1]) + DigitValue(s[2])
         IN  IF 1 <= num /\ num <= 12 THEN TokMonth
             ELSE IF 13 <= num /\ num <= 31 THEN TokDay
             ELSE TokId)
    ELSE ClassifySegment(s, is_last)

\* C4: a segment of exactly 4 digits is classified :year, and a segment of
\* exactly 2 digits :month (1..12), :day (13..31) or :id (otherwise).
C4_YearMonthDay ==
    (n_pc = "return" /\ n_url.netloc = n_base /\ Segments(n_url.path) # <<>>) =>
        LET segments == Segments(n_url.path)
        IN  n_pattern = JoinPattern([i \in 1..Len(segments) |->
                            C4_Expected(segments[i], i = Len(segments))])

(***************************************************************************)
(* Properties of the representative URL selector.                          *)
(***************************************************************************)
\* the candidate URLs in the order the selector met them
s_candidates ==
    ExtractIndexChildren(web, s_sitemaps)

\* the host the selector compared against
s_netloc ==
    IF s_fn = "site" THEN s_arg.netloc
    ELSE GivenSitemapNetloc(s_candidates, s_arg)

\* the pattern the selector derives for u when it compares against netloc
SelectorPattern(u, netloc) ==
    NormalizePattern(u, IF netloc # "" THEN netloc ELSE u.netloc)

RECURSIVE SortedSeq(_)
SortedSeq(S) ==
    IF S = {} THEN <<>>
    ELSE LET m == CHOOSE x \in S : \A y \in S : x <= y
         IN  <<m>> \o SortedSeq(S \ {m})

\* the first typed candidate of every pattern, in first-seen order; a
\* candidate is typed when it is on the compared host and has a pattern
FirstSeen(cands, netloc) ==
    LET pat == [i \in 1..Len(cands) |-> SelectorPattern(cands[i], netloc)]
        typed == {i \in 1..Len(cands) :
                     /\ netloc # "" => cands[i].netloc = netloc
                     /\ pat[i] # <<>>}
        firsts == {i \in typed : \A j \in typed : j < i => pat[j] # pat[i]}
        idx == SortedSeq(firsts)
    IN  [k \in 1..Len(idx) |-> cands[idx[k]]]

s_first_seen ==
    FirstSeen(s_candidates, s_netloc)

\* C1: the selector returns at most max_types URLs, no two of them with the
\* same pattern.
C1_AtMostMaxTypes ==
    s_pc = "return" =>
        /\ Len(s_result) <= s_max_types
        /\ \A i, j \in 1..Len(s_result) :
              i # j => SelectorPattern(s_result[i], s_netloc)
                          # SelectorPattern(s_result[j], s_netloc)

\* C2: the representative of each pattern is the first URL of that pattern in
\* sitemap order and the list is in first-seen order of patterns; the sitemap
\* /blog/1, /blog/2, /about with a maximum of 10 gives [/blog/1, /about].
C2_FirstSeenRepresentatives ==
    s_pc = "return" =>
        LET first_seen == s_first_seen
        IN  /\ Len(s_result) <= Len(first_seen)
            /\ s_result = SubSeq(first_seen, 1, Len(s_result))
            /\ s_max_types >= Len(first_seen) => s_result = first_seen
            /\ (/\ s_candidates = <<u_blog_1, u_blog_2, u_about>>
                /\ s_max_types = ScenarioMaxPages)
                  => s_result = <<u_blog_1, u_about>>

\* the scenario: the given sitemap lists /blog/1, /blog/2, /about
C2_Witness ==
    /\ s_pc = "return"
    /\ s_fn = "given"
    /\ s_candidates = <<u_blog_1, u_blog_2, u_about>>
    /\ s_max_types = ScenarioMaxPages
    /\ s_result = <<u_blog_1, u_about>>

(***************************************************************************)
(* _filter_context_by_urls as an operation.  The context is a text, its    *)
(* sections start at the lines that begin with the marker "[URL]".         *)
(***************************************************************************)
UrlMarker ==
    <<"[", "U", "R", "L", "]">>

\* context.split("\n")
RECURSIVE SplitLines(_)
SplitLines(text) ==
    IF \A k \in DOMAIN text : text[k] # "\n" THEN <<text>>
    ELSE LET k == CHOOSE x \in DOMAIN text :
                      /\ text[x] = "\n"
                      /\ \A y \in 1..(x - 1) : text[y] # "\n"
         IN  <<SubSeq(text, 1, k - 1)>>
                \o SplitLines(SubSeq(text, k + 1, Len(text)))

\* "\n".join(lines)
RECURSIVE JoinWithNewlines(_)
JoinWithNewlines(lines) ==
    IF lines = <<>> THEN <<>>
    ELSE IF Len(lines) = 1 THEN lines[1]
    ELSE lines[1] \o <<"\n">> \o JoinWithNewlines(Tail(lines))

\* any(url in line for url in urls)
AnyUrlInLine(urls, line) ==
    \E k \in DOMAIN urls : Contains(line, urls[k])

\* lines 256-258: the flag after a line was looked at
NextInclude(include, line, urls) ==
    IF StartsWith(line, UrlMarker) THEN AnyUrlInLine(urls, line) ELSE include

\* lines 255-261: the loop over the lines, from the flag "include"
RECURSIVE FilterLines(_, _, _)
FilterLines(lines, urls, include) ==
    IF lines = <<>> THEN <<>>
    ELSE LET now == NextInclude(include, Head(lines), urls)
         IN  (IF now THEN <<Head(lines)>> ELSE <<>>)
                \o FilterLines(Tail(lines), urls, now)

\* _filter_context_by_urls(context, urls)
FilterContextByUrls(context, urls) ==
    JoinWithNewlines(FilterLines(SplitLines(context), urls, FALSE))

\* the URLs of the contexts: one is a prefix of another
FilterUrls ==
    {<<"a", "/", "1">>, <<"a", "/", "1", "0">>, <<"b">>}

MarkerLine(url) ==
    UrlMarker \o <<" ">> \o url

FilterLineChoices ==
    {MarkerLine(u) : u \in FilterUrls} \cup {<<"t">>, <<"s">>}

FilterInit ==
    /\ f_pc = "call"
    /\ \E lines \in SeqsUpTo(FilterLineChoices, MaxLines) :
          f_context = JoinWithNewlines(lines)
    /\ f_urls \in SeqsUpTo(FilterUrls, MaxBatch)
    /\ f_out = <<>>
    /\ ExpandIdle
    /\ RepairIdle
    /\ AnalysisIdle
    /\ NormalizeIdle
    /\ NoWeb
    /\ SelectorIdle
    /\ CrawlIdle

CallFilterContextByUrls ==
    /\ f_pc = "call"
    /\ f_out' = FilterContextByUrls(f_context, f_urls)
    /\ f_pc' = "return"
    /\ UNCHANGED <<f_context, f_urls>>
    /\ UNCHANGED <<x_vars, r_vars, a_vars, env_vars, n_vars, s_vars, c_vars>>

FilterNext ==
    CallFilterContextByUrls

SpecFilter ==
    FilterInit /\ [][FilterNext]_vars

(***************************************************************************)
(* _extract_urls_from_sitemap call by call: x_stack holds the calls under  *)
(* way, so that a collection of sitemap documents that refer to each other *)
(* in a cycle can be expanded too.                                         *)
(***************************************************************************)
\* a call of _extract_urls_from_sitemap(page, sitemap_url): "enter" before its
\* navigation, "loop" inside "for sm in index"
Frame(sitemap_url) ==
    [url |-> sitemap_url, at |-> "enter", todo |-> <<>>, urls |-> <<>>]

ExpandUrls ==
    {sm_sitemap_index_xml, sm_child_1, sm_child_2}

ExpandDocChoices ==
    {IndexDoc(children) :
        children \in SeqsUpTo(ExpandUrls, MaxChildren) \ {<<>>}}
    \cup {UrlSetDoc(<<u_blog_1>>), BareLocDoc(<<u_about>>),
          FailedDoc("http_error"), FailedDoc("exception")}

ExpandInit ==
    /\ x_pc = "call"
    /\ x_root = sm_sitemap_index_xml
    /\ x_stack = <<>>
    /\ x_overflow = FALSE
    /\ x_result = <<>>
    /\ web \in [ExpandUrls -> ExpandDocChoices]
    /\ robots = [status |-> "exception", sitemaps |-> {}]
    /\ FilterIdle
    /\ RepairIdle
    /\ AnalysisIdle
    /\ NormalizeIdle
    /\ SelectorIdle
    /\ CrawlIdle

\* the innermost call returns r: to the caller's urls.extend(...), or out
ReturnFromTop(r) ==
    LET depth == Len(x_stack)
    IN  IF depth = 1
        THEN /\ x_stack' = <<>>
             /\ x_result' = r
             /\ x_pc' = "returned"
        ELSE /\ x_stack' = [SubSeq(x_stack, 1, depth - 1) EXCEPT
                               ![depth - 1].urls = @ \o r]
             /\ UNCHANGED <<x_result, x_pc>>

\* the outermost call
ExpandCall ==
    /\ x_pc = "call"
    /\ x_stack' = <<Frame(x_root)>>
    /\ x_pc' = "running"
    /\ UNCHANGED <<x_root, x_overflow, x_result>>
    /\ UNCHANGED <<f_vars, r_vars, a_vars, env_vars, n_vars, s_vars, c_vars>>

\* lines 172-193 of the innermost call: navigate, parse, and either return
\* (no response, a urlset, bare locs) or start the loop over the index
ExpandNavigate ==
    /\ x_pc = "running"
    /\ LET depth == Len(x_stack)
           top == x_stack[depth]
       IN  /\ top.at = "enter"
           /\ IF top.url \notin DOMAIN web THEN ReturnFromTop(<<>>)
              ELSE IF web[top.url].status # "ok" THEN ReturnFromTop(<<>>)
              ELSE IF web[top.url].sitemaps # <<>>
                   THEN /\ x_stack' = [x_stack EXCEPT
                                          ![depth].at = "loop",
                                          ![depth].todo = web[top.url].sitemaps]
                        /\ UNCHANGED <<x_result, x_pc>>
              ELSE IF web[top.url].url_locs # <<>>
                   THEN ReturnFromTop(web[top.url].url_locs)
              ELSE ReturnFromTop(web[top.url].other_locs)
    /\ UNCHANGED <<x_root, x_overflow>>
    /\ UNCHANGED <<f_vars, r_vars, a_vars, env_vars, n_vars, s_vars, c_vars>>

\* line 183: the innermost call calls itself for the next <sitemap> entry
ExpandChild ==
    /\ x_pc = "running"
    /\ LET depth == Len(x_stack)
           top == x_stack[depth]
       IN  /\ top.at = "loop"
           /\ top.todo # <<>>
           /\ depth < RecursionLimit
           /\ x_stack' = Append([x_stack EXCEPT ![depth].todo = Tail(@)],
                                Frame(Head(top.todo)))
    /\ UNCHANGED <<x_pc, x_root, x_overflow, x_result>>
    /\ UNCHANGED <<f_vars, r_vars, a_vars, env_vars, n_vars, s_vars, c_vars>>

\* line 183 at the recursion limit, RecursionError raised inside the callee
\* (under its navigation): its "except Exception" returns its empty list and
\* the caller goes on with the next entry
ExpandOverflowInCallee ==
    /\ x_pc = "running"
    /\ LET depth == Len(x_stack)
           top == x_stack[depth]
       IN  /\ top.at = "loop"
           /\ top.todo # <<>>
           /\ depth >= RecursionLimit
           /\ x_stack' = [x_stack EXCEPT ![depth].todo = Tail(@)]
    /\ x_overflow' = TRUE
    /\ UNCHANGED <<x_pc, x_root, x_result>>
    /\ UNCHANGED <<f_vars, r_vars, a_vars, env_vars, n_vars, s_vars, c_vars>>

\* line 183 at the recursion limit, RecursionError raised on entering the
\* callee: the caller's "except Exception" returns what it has
ExpandOverflowInCaller ==
    /\ x_pc = "running"
    /\ LET depth == Len(x_stack)
           top == x_stack[depth]
       IN  /\ top.at = "loop"
           /\ top.todo # <<>>
           /\ depth >= RecursionLimit
           /\ ReturnFromTop(top.urls)
    /\ x_overflow' = TRUE
    /\ UNCHANGED x_root
    /\ UNCHANGED <<f_vars, r_vars, a_vars, env_vars, n_vars, s_vars, c_vars>>

\* line 184: the loop over the index is done
ExpandReturn ==
    /\ x_pc = "running"
    /\ LET top == x_stack[Len(x_stack)]
       IN  /\ top.at = "loop"
           /\ top.todo = <<>>
           /\ ReturnFromTop(top.urls)
    /\ UNCHANGED <<x_root, x_overflow>>
    /\ UNCHANGED <<f_vars, r_vars, a_vars, env_vars, n_vars, s_vars, c_vars>>

ExpandNext ==
    \/ ExpandCall
    \/ ExpandNavigate
    \/ ExpandChild
    \/ ExpandOverflowInCallee
    \/ ExpandOverflowInCaller
    \/ ExpandReturn

SpecExpand ==
    ExpandInit /\ [][ExpandNext]_vars

(***************************************************************************)
(* Properties of the fetch phase of crawl_website.                         *)
(***************************************************************************)
\* task i is past the visited-set gate: it started a fetch of its URL
PassedGate(i) ==
    t_pc[i] \in {"static", "parsed", "render", "returned_status",
                 "returned_text", "returned_exception"}

\* the tasks inside the gate, awaiting a static request or a navigation
InGate ==
    {i \in Tasks : t_pc[i] \in {"static", "parsed", "render"}}

\* C5: at most one task passes the visited-set gate for a URL, so a URL that
\* is listed twice is fetched at most once and its other occurrences yield
\* absent.
C5_FetchedAtMostOnce ==
    /\ \A i, j \in Tasks :
          (i # j /\ links_to_crawl[i] = links_to_crawl[j])
              => ~(PassedGate(i) /\ PassedGate(j))
    /\ \A i \in Tasks :
          t_pc[i] = "returned_visited" =>
              /\ results[i] = None
              /\ \E j \in Tasks : /\ j # i
                                  /\ links_to_crawl[j] = links_to_crawl[i]
                                  /\ PassedGate(j)

\* a URL listed twice: one task fetched it, the other found it visited
C5_Witness ==
    \E i, j \in Tasks :
        /\ i # j
        /\ links_to_crawl[i] = links_to_crawl[j]
        /\ t_pc[i] = "returned_text"
        /\ t_pc[j] = "returned_visited"

\* C6: the number of fetch tasks inside the gate never exceeds concurrency.
C6_GateBound ==
    c_pc = "fetching" => Cardinality(InGate) <= c_concurrency

\* the gate is full and a further task waits at it
C6_Witness ==
    /\ c_pc = "fetching"
    /\ Cardinality(InGate) = c_concurrency
    /\ sem = 0
    /\ \E i \in Tasks : t_pc[i] = "pending" /\ links_to_crawl[i] \notin visited

\* C7: an exception during the fetch of one URL is caught and that URL is
\* absent; it never aborts the fetch phase: crawl_website does not raise once
\* the tasks exist, the permit of the failed task is free again, and every
\* other task's text, if any, is collected.
C7_FetchExceptionIsolated ==
    /\ c_pc = "raised" => t_pc = <<>>
    /\ \A i \in Tasks : t_pc[i] = "returned_exception" => results[i] = None
    /\ c_pc = "fetching" => sem + Cardinality(InGate) = c_concurrency
    /\ c_pc = "returned" =>
          \A i \in Tasks :
              /\ TaskReturned(i)
              /\ Truthy(results[i]) =>
                    \E k \in 1..Len(collected_text) :
                        /\ collected_text[k] = results[i]
                        /\ crawled_urls[k] = links_to_crawl[i]

\* a fetch raised, and a later URL's text is in the returned lists
C7_Witness ==
    /\ c_pc = "returned"
    /\ \E i, j \in Tasks :
          /\ i < j
          /\ t_pc[i] = "returned_exception"
          /\ t_pc[j] = "returned_text"
          /\ Truthy(results[j])
          /\ results[j] \in Range(collected_text)
          /\ links_to_crawl[j] \in Range(crawled_urls)

\* C8: a discovery or navigation failure never makes crawl_website fail.
C8_CrawlNeverFails ==
    c_pc # "raised"

\* the runs of a string that are page text
RECURSIVE PageRuns(_)
PageRuns(runs) ==
    IF runs = <<>> THEN <<>>
    ELSE IF Head(runs).page # 0 THEN <<Head(runs)>> \o PageRuns(Tail(runs))
    ELSE PageRuns(Tail(runs))

\* C9: the returned URL list holds exactly the URLs whose text contributed to
\* the returned corpus, in order: urls[i] is the URL of the i-th page text in
\* the corpus.
C9_UrlsMatchCorpus ==
    c_pc = "returned" =>
        LET texts == PageRuns(c_corpus)
        IN  crawled_urls = [k \in 1..Len(texts) |-> links_to_crawl[texts[k].page]]

\* C10 as stated: extracts capped at 6000 characters, the corpus at 20000, and
\* when the concatenation is longer the oldest content is cut away, so the
\* newest text is whole in the corpus.
C10_OldestTruncated ==
    c_pc = "returned" =>
        LET joined == JoinLines(collected_text)
        IN  /\ \A i \in Tasks : results[i].len <= PageCharBudget
            /\ StringLen(c_corpus) <= CorpusCharBudget
            /\ StringLen(joined) > CorpusCharBudget =>
                  c_corpus[Len(c_corpus)] = collected_text[Len(collected_text)]

\* C10, amended: extracts capped at 6000 characters, the corpus at 20000, and
\* when the concatenation is longer the newest content is cut away: the corpus
\* is the first 20000 characters of the concatenation.
C10_NewestTruncated ==
    c_pc = "returned" =>
        LET joined == JoinLines(collected_text)
        IN  /\ \A i \in Tasks : results[i].len <= PageCharBudget
            /\ StringLen(c_corpus) = Min(StringLen(joined), CorpusCharBudget)
            /\ Len(c_corpus) <= Len(joined)
            /\ \A k \in 1..Len(c_corpus) :
                  /\ c_corpus[k].page = joined[k].page
                  /\ c_corpus[k].off = joined[k].off
                  /\ c_corpus[k].len <= joined[k].len
                  /\ k < Len(c_corpus) => c_corpus[k] = joined[k]

\* the concatenation was longer than the budget and was cut to it
C10_Witness ==
    /\ c_pc = "returned"
    /\ StringLen(JoinLines(collected_text)) > CorpusCharBudget
    /\ StringLen(c_corpus) = CorpusCharBudget
    /\ c_corpus[1] = collected_text[1]

(***************************************************************************)
(* Properties of generate_rfp_analysis.                                    *)
(***************************************************************************)
\* generate_rfp_analysis has returned or raised
AnalysisOver ==
    a_pc \in {"returned", "raised"}

\* the input error of line 278, raised before any call of the language model
InputErrorBeforeAnyCall ==
    a_pc = "raised" /\ a_error = "NoUrls" /\ a_calls = <<>>

\* C11, as claimed: called with an empty crawled-URL list, generate_rfp_analysis
\* fails with an input error before any language-model call, whatever the corpus
C11_EmptyListFailsForEveryCorpus ==
    (a_pc \notin {"idle", "call"} /\ a_crawled = <<>>) => InputErrorBeforeAnyCall

\* C11, amended: called with an empty crawled-URL list and a corpus in which
\* no http(s) URL is found, generate_rfp_analysis fails with an input error
\* before any language-model call
C11_EmptyListAndNoUrlInCorpusFails ==
    (a_pc \notin {"idle", "call"} /\ a_crawled = <<>> /\ FindUrls(a_context) = <<>>)
        => InputErrorBeforeAnyCall

\* an empty URL list with a corpus that has text but no URL was refused
C11_Witness ==
    /\ InputErrorBeforeAnyCall
    /\ a_crawled = <<>>
    /\ a_context # <<>>

\* the URLs handed to the analysis: the crawled ones, else those of the corpus
GivenUrls ==
    Range(IF a_crawled # <<>> THEN a_crawled ELSE FindUrls(a_context))

\* the number of distinct URLs handed to the analysis
DistinctUrlCount ==
    Cardinality(GivenUrls)

\* the calls made were for batches of k URLs each, the last one of the rest
CalledInBatchesOf(k) ==
    /\ Len(a_calls) * k >= DistinctUrlCount
    /\ (Len(a_calls) - 1) * k < DistinctUrlCount
    /\ \A j \in 1..(Len(a_calls) - 1) : Len(a_calls[j]) = k
    /\ Len(a_calls[Len(a_calls)]) = DistinctUrlCount - (Len(a_calls) - 1) * k

RECURSIVE ConcatCalls(_)
ConcatCalls(calls) ==
    IF calls = <<>> THEN <<>>
    ELSE Head(calls) \o ConcatCalls(Tail(calls))

\* lst is in strictly rising order, so sorted and without a URL twice
StrictlyRising(lst) ==
    \A i \in 1..(Len(lst) - 1) : lst[i] < lst[i + 1]

\* C13: the batches partition the sorted, deduplicated URL set: each is a
\* non-empty contiguous chunk of at most batch_size URLs, and taken in order
\* they reproduce the sorted list, every URL in exactly one batch
C13_BatchesPartitionUrls ==
    (AnalysisOver /\ a_error # "NoUrls") =>
        /\ \A j \in DOMAIN a_calls :
              /\ a_calls[j] # <<>>
              /\ Len(a_calls[j]) <= a_size
        /\ a_batch_size # NoBatchSize => a_size = a_batch_size
        /\ StrictlyRising(ConcatCalls(a_calls))
        /\ Range(ConcatCalls(a_calls)) = GivenUrls
        /\ Len(ConcatCalls(a_calls)) = DistinctUrlCount

\* a crawl that lists a URL twice was analysed in several batches, the last
\* one shorter than the first
C13_Witness ==
    /\ AnalysisOver
    /\ Len(a_calls) >= 2
    /\ Len(a_calls[Len(a_calls)]) < Len(a_calls[1])
    /\ Len(a_crawled) > DistinctUrlCount

\* the analysis went the multi-batch way
Batched ==
    a_size < Len(a_urls)

\* C14: in a multi-batch analysis a failed batch is skipped and the batches
\* after it are still processed; a document built from the successful batches
\* is returned whenever one batch succeeded, and the analysis fails only when
\* none did
C14_PartialResultsUnlessAllFail ==
    (AnalysisOver /\ Batched) =>
        /\ Len(a_calls) = NumBatches(Len(a_urls), a_size)
        /\ a_batches # <<>> =>
              a_pc = "returned" /\ a_result.pages = ConcatPages(a_batches)
        /\ a_batches = <<>> => a_pc = "raised"

\* the page types the component named name appears under in the pages of doc
AppearsUnder(doc, name) ==
    {PageTypeOfPage(doc.pages[i]) :
        i \in {j \in DOMAIN doc.pages : name \in PageComponents(doc.pages[j])}}

\* C15: in the returned document, from one batch or several, a component
\* that appears under two different page types is marked reusable "Yes" and
\* one that appears under exactly one is marked "No"
C15_ReusableMarked ==
    a_pc = "returned" =>
        \A k \in DOMAIN a_result.components :
            LET comp == a_result.components[k]
                types == Cardinality(AppearsUnder(a_result, comp.name))
            IN  /\ types >= 2 => comp.reusable = "Yes"
                /\ types = 1 => comp.reusable = "No"

\* the count total of the page_types entries of doc named name
CountTotal(doc, name) ==
    SumCounts(SelectSeq(doc.page_types, LAMBDA pt : pt.name = name))

PageTypeNames(doc) ==
    {doc.page_types[k].name : k \in DOMAIN doc.page_types}

\* the same count total for every name, and the same set of pages
SameTotalsAndPages(d1, d2) ==
    /\ PageTypeNames(d1) = PageTypeNames(d2)
    /\ \A name \in PageTypeNames(d1) : CountTotal(d1, name) = CountTotal(d2, name)
    /\ Range(d1.pages) = Range(d2.pages)

\* C16: merging [A,B] and then the result with [C] gives the same per-name
\* page_types[].count totals and the same set of pages as merging [A,B,C]
C16_MergeOrderInsensitive ==
    (Len(a_batches) >= 3 /\ a_batches[1].has_overview) =>
        SameTotalsAndPages(
            MergeRfpBatches(<<MergeRfpBatches(<<a_batches[1], a_batches[2]>>),
                              a_batches[3]>>),
            MergeRfpBatches(<<a_batches[1], a_batches[2], a_batches[3]>>))

\* three batches succeeded and two of them report the same page type
C16_Witness ==
    /\ Len(a_batches) = 3
    /\ a_batches[1].has_overview
    /\ a_batches[1].page_types[1].name = a_batches[3].page_types[1].name
    /\ a_batches[1].page_types[1].count > 0

\* sum(page_types[].count) == len(pages)
CountsReconciled(doc) ==
    SumCounts(doc.page_types) = Len(doc.pages)

\* C17: if every successful batch has sum(page_types[].count) == len(pages),
\* so has the merged and annotated document, also when the annotation adds
\* page-type entries the model did not emit
C17_CountsStayReconciled ==
    (a_pc = "returned" /\ Batched
        /\ \A j \in DOMAIN a_batches : CountsReconciled(a_batches[j]))
        => CountsReconciled(a_result)

\* reconciled batches were merged and the annotation added a page type
C17_Witness ==
    /\ a_pc = "returned"
    /\ Batched
    /\ Len(a_batches) >= 2
    /\ \A j \in DOMAIN a_batches : CountsReconciled(a_batches[j])
    /\ Len(a_result.page_types) > Len(MergeRfpBatches(a_batches).page_types)

\* C18: in the returned document every pages[].url is unique and is one of
\* the crawled URLs, whatever the language model returned
C18_PagesUniqueAndCrawled ==
    a_pc = "returned" =>
        /\ \A i \in DOMAIN a_result.pages : a_result.pages[i].url \in Range(a_urls)
        /\ \A i, j \in DOMAIN a_result.pages :
              i # j => a_result.pages[i].url # a_result.pages[j].url

\* the page types of the pages of doc whose URL is among found_on_urls
FoundUnder(doc, found_on_urls) ==
    {PageTypeOfPage(doc.pages[i]) :
        i \in {j \in DOMAIN doc.pages : doc.pages[j].url \in Range(found_on_urls)}}

\* the page types a component of doc is associated with: through the
\* components lists of the pages and through its own found_on_urls
AssociatedPageTypes(doc, comp) ==
    AppearsUnder(doc, Strip(comp.name)) \cup FoundUnder(doc, comp.found_on_urls)

\* C21: after annotation a component's reusable flag is "Yes" exactly when
\* it is associated with more than one page type, found_on_urls counted, and
\* so a component is listed in the components_reusable of some page type if
\* and only if its flag is "Yes"
C21_ReusableIffSeveralPageTypes ==
    (a_pc = "returned" /\ Batched) =>
        \A k \in DOMAIN a_result.components :
            LET comp == a_result.components[k]
            IN  /\ comp.reusable = "Yes"
                      <=> Cardinality(AssociatedPageTypes(a_result, comp)) > 1
                /\ (\E j \in DOMAIN a_result.page_types :
                        Strip(comp.name) \in a_result.page_types[j].components_reusable)
                      <=> comp.reusable = "Yes"

(***************************************************************************)
(* Properties of the response repair.                                      *)
(***************************************************************************)
\* C19: a valid JSON object, serialised, wrapped in Markdown code fences and
\* given a trailing comma before a closing bracket, is repaired by
\* _safe_json_loads to an object equal to the original, whatever commas,
\* brackets, braces or backticks its string values hold
C19_RepairRoundTrip ==
    (r_pc = "return" /\ r_fn = "_safe_json_loads" /\ r_text \in FencedAnswers(r_obj)) =>
        r_out.ok /\ r_out.val = r_obj

\* the sanitised text of the second stage
Sanitised(s) ==
    RemoveTrailingCommas(EscapeNewlinesInStrings(StripCodeFences(s)))

\* the third stage on its own: the first balanced {...} object parses
BalancedStageParses(s) ==
    /\ ExtractBalancedJson(Sanitised(s)) # <<>>
    /\ JsonLoads(RemoveTrailingCommas(EscapeNewlinesInStrings(
            ExtractBalancedJson(Sanitised(s))))).ok

\* the fourth stage on its own: the greedy outermost {...} span parses
GreedyStageParses(s) ==
    /\ GreedyObject(Sanitised(s)) # <<>>
    /\ JsonLoads(RemoveTrailingCommas(EscapeNewlinesInStrings(
            GreedyObject(Sanitised(s))))).ok

\* C22: _safe_json_loads goes through its four stages until one succeeds and
\* raises only if all four fail; in particular it does not raise when the
\* greedy outermost span would parse
C22_FailsOnlyIfAllStagesFail ==
    (r_pc = "return" /\ r_fn = "_safe_json_loads") =>
        (r_out.ok <=> \/ JsonLoads(r_text).ok
                      \/ JsonLoads(Sanitised(r_text)).ok
                      \/ BalancedStageParses(r_text)
                      \/ GreedyStageParses(r_text))

\* whether position i of s lies in a quoted string, after its opening quote,
\* and whether the character there is escaped by a backslash before it
RECURSIVE InString(_, _)
RECURSIVE Escaped(_, _)
InString(s, i) ==
    IF i = 1 THEN FALSE
    ELSE IF InString(s, i - 1)
    THEN Escaped(s, i - 1) \/ s[i - 1] # "\""
    ELSE s[i - 1] = "\""

Escaped(s, i) ==
    /\ i > 1
    /\ InString(s, i - 1)
    /\ s[i - 1] = "\\"
    /\ ~Escaped(s, i - 1)

\* s with the characters at the positions in breaks replaced by \n
RECURSIVE WithBreaksEscaped(_, _, _)
WithBreaksEscaped(s, breaks, i) ==
    IF i > Len(s) THEN <<>>
    ELSE (IF i \in breaks THEN <<"\\", "n">> ELSE <<s[i]>>)
         \o WithBreaksEscaped(s, breaks, i + 1)

\* the raw line breaks of s inside quoted strings
BreaksInStrings(s) ==
    {i \in DOMAIN s : s[i] \in {"\n", "\r"} /\ InString(s, i)}

\* C23: every raw CR or LF inside a quoted string is replaced by
\* the two characters \n and every other character is emitted unchanged; so
\* the function is the identity on text with no raw line break inside a
\* string, and idempotent
C23_EveryBreakInStringEscaped ==
    (r_pc = "return" /\ r_fn = "_escape_newlines_in_strings") =>
        /\ r_out.val.s = WithBreaksEscaped(r_text, BreaksInStrings(r_text), 1)
        /\ BreaksInStrings(r_text) = {} => r_out.val.s = r_text
        /\ EscapeNewlinesInStrings(r_out.val.s) = r_out.val.s

\* what the function does: a raw CR or LF inside a quoted string is replaced
\* unless it directly follows an escaping backslash, which passes it through
\* unchanged; the function is the identity on text with no raw line break
\* inside a string, and idempotent
EscapesUnescapedBreaksInStrings ==
    (r_pc = "return" /\ r_fn = "_escape_newlines_in_strings") =>
        /\ r_out.val.s =
              WithBreaksEscaped(r_text,
                  {i \in BreaksInStrings(r_text) : ~Escaped(r_text, i)}, 1)
        /\ BreaksInStrings(r_text) = {} => r_out.val.s = r_text
        /\ EscapeNewlinesInStrings(r_out.val.s) = r_out.val.s

\* C20: tool-call arguments cut short, their final closing braces missing, are
\* still parsed to some structure and no parse error reaches the caller,
\* wherever the cut is
C20_TruncatedArgumentsParse ==
    (r_pc = "return" /\ r_fn = "tool_call") => r_out.ok

(***************************************************************************)
(* Properties of the static fetch and its browser fallback.                *)
(***************************************************************************)
\* task i leaves the static path for a navigation in a browsing context
FallsBackToBrowser(i) ==
    /\ t_pc[i] = "parsed"
    /\ t_pc'[i] = "render"
    /\ i \in open_ctx'

\* task i returns the text of its static response
ReturnsStaticText(i) ==
    /\ t_pc[i] = "parsed"
    /\ t_pc'[i] = "returned_text"

\* with render_js no task is ever on the static path and no HTTP client exists
RenderJsSkipsStatic ==
    c_render_js =>
        /\ aio_sess = "none"
        /\ \A i \in Tasks : t_pc[i] \notin {"static", "parsed"}

\* a task starts a navigation only from the admission when render_js is set,
\* and only from a parsed static response otherwise; with render_js every
\* admitted task starts one
RenderedOnlyByChoice ==
    \A i \in DOMAIN t_pc :
        /\ t_pc[i] # "render" /\ t_pc'[i] = "render" =>
               /\ t_pc[i] = IF c_render_js THEN "pending" ELSE "parsed"
               /\ i \in open_ctx'
        /\ c_render_js /\ t_pc[i] = "pending" /\ PassedGate(i)' =>
               t_pc'[i] = "render"

\* C24 as stated: the static path falls back to the browser exactly when the
\* static text is shorter than 300 characters and the markup has a SPA root
\* marker or MORE THAN 8 script tags; with render_js there is no static
\* request at all.
C24_FallbackIffMoreThanEightScripts ==
    [][/\ RenderJsSkipsStatic
       /\ RenderedOnlyByChoice
       /\ \A i \in DOMAIN t_pc :
             t_pc[i] = "parsed" /\ t_pc'[i] # "parsed" =>
                 /\ FallsBackToBrowser(i) \/ ReturnsStaticText(i)
                 /\ FallsBackToBrowser(i) <=>
                        /\ t_resp[i].text_len < 300
                        /\ t_resp[i].marker \/ t_resp[i].scripts > 8]_vars

\* C24 (amended): the static path falls back to the browser exactly when the
\* static text is shorter than 300 characters and the markup has a SPA root
\* marker or AT LEAST 8 script tags, so a page with 300 or more characters of
\* static text is never rendered; with render_js there is no static request
\* at all.
C24_FallbackIffAtLeastEightScripts ==
    [][/\ RenderJsSkipsStatic
       /\ RenderedOnlyByChoice
       /\ \A i \in DOMAIN t_pc :
             t_pc[i] = "parsed" /\ t_pc'[i] # "parsed" =>
                 /\ FallsBackToBrowser(i) \/ ReturnsStaticText(i)
                 /\ FallsBackToBrowser(i) <=>
                        /\ t_resp[i].text_len < 300
                        /\ t_resp[i].marker \/ t_resp[i].scripts >= 8]_vars

\* a static response of exactly 300 characters with a SPA root marker is at
\* hand, and next to it a task that fell back to the browser
C24_Witness ==
    /\ ~ c_render_js
    /\ \E i \in Tasks :
          /\ t_pc[i] = "parsed"
          /\ t_resp[i].text_len = 300
          /\ t_resp[i].marker
    /\ \E j \in Tasks : t_pc[j] = "render" /\ j \in open_ctx

\* C26: on every exit of crawl_website, by return or by exception, the browser
\* and the HTTP client the call created are closed, and the HTTP client is
\* closed only after every fetch has completed.
C26_BrowserAndClientClosedOnEveryExit ==
    /\ c_pc \in {"returned", "raised"} =>
          /\ browser \in {"none", "closed", "stopped"}
          /\ aio_sess \in {"none", "closed"}
    /\ aio_sess = "closed" => \A i \in Tasks : TaskReturned(i)

\* C25: every browsing context a task opened is closed by the time the task
\* has returned, also when the fetch failed with an exception.
C25_ContextClosedWhenTaskReturned ==
    \A i \in Tasks : TaskReturned(i) => i \notin open_ctx

(***************************************************************************)
(* Properties of _filter_context_by_urls.                                  *)
(***************************************************************************)
\* the URL a marker line names
MarkerUrl(line) ==
    SubSeq(line, Len(UrlMarker) + 2, Len(line))

\* the marker line that precedes line k (k itself when it is one), 0 if none
MarkerBefore(lines, k) ==
    LET M == {m \in 1..k : StartsWith(lines[m], UrlMarker)}
    IN  IF M = {} THEN 0 ELSE CHOOSE m \in M : \A n \in M : n <= m

\* the lines of the sections whose marker names a URL of the batch
SectionsOfBatch(lines, urls) ==
    LET keep(k) == /\ MarkerBefore(lines, k) # 0
                   /\ MarkerUrl(lines[MarkerBefore(lines, k)]) \in Range(urls)
        idx == SelectSeq([k \in 1..Len(lines) |-> k], keep)
    IN  [j \in 1..Len(idx) |-> lines[idx[j]]]

\* C27: _filter_context_by_urls keeps exactly the sections whose [URL] marker
\* names a URL of the batch: no section of another URL (also when a batch URL
\* is a prefix of it), every section of a batch URL, nothing from before the
\* first marker.
C27_KeepsExactlySectionsOfBatch ==
    f_pc = "return" =>
        f_out = JoinWithNewlines(SectionsOfBatch(SplitLines(f_context), f_urls))

\* what the code keeps: the sections whose marker line holds a URL of the
\* batch somewhere in it, and nothing from before the first marker
KeepsSectionsWhoseMarkerHoldsBatchUrl ==
    f_pc = "return" =>
        LET lines == SplitLines(f_context)
            keep(k) == /\ MarkerBefore(lines, k) # 0
                       /\ \E u \in Range(f_urls) :
                             Contains(lines[MarkerBefore(lines, k)], u)
            idx == SelectSeq([k \in 1..Len(lines) |-> k], keep)
        IN  f_out = JoinWithNewlines([j \in 1..Len(idx) |-> lines[idx[j]]])

(***************************************************************************)
(* Properties of the sitemap expansion.                                    *)
(***************************************************************************)
\* the sitemap documents reachable from u through <sitemap> entries in at
\* most n steps
RECURSIVE ReachableSitemaps(_, _, _)
ReachableSitemaps(w, S, n) ==
    IF n = 0 THEN S
    ELSE ReachableSitemaps(w,
            S \cup UNION {Range(w[u].sitemaps) :
                             u \in {v \in S \cap DOMAIN w : w[v].status = "ok"}},
            n - 1)

RefersTo(w, u) ==
    IF u \in DOMAIN w /\ w[u].status = "ok" THEN Range(w[u].sitemaps) ELSE {}

\* no sitemap index of the collection reaches itself
AcyclicWeb(w) ==
    \A u \in DOMAIN w :
        u \notin ReachableSitemaps(w, RefersTo(w, u), Cardinality(DOMAIN w))

\* C28: the expansion is bounded by the collection of documents alone, also
\* when a sitemap index lists itself or indexes refer to each other in a
\* cycle: no document is expanded inside its own expansion and the
\* interpreter's recursion limit is never what ends it.
C28_ExpansionBoundedByCollection ==
    /\ \A i, j \in DOMAIN x_stack :
          i # j => x_stack[i].url # x_stack[j].url
    /\ ~ x_overflow

\* what holds: on a collection without a cycle the expansion never meets the
\* recursion limit and returns the URLs of the documents in document order
AcyclicExpansionReturnsAllUrls ==
    AcyclicWeb(web) =>
        /\ ~ x_overflow
        /\ \A i, j \in DOMAIN x_stack :
              i # j => x_stack[i].url # x_stack[j].url
        /\ x_pc = "returned" => x_result = ExtractUrlsFromSitemap(web, x_root)

(***************************************************************************)
(* Properties of the merge on its inputs.                                  *)
(***************************************************************************)
\* the example_urls of the page_types and the found_on_urls of the components
\* of a batch, in order
UrlListsOf(batch) ==
    <<[e \in DOMAIN batch.page_types |-> batch.page_types[e].example_urls],
      [e \in DOMAIN batch.components |-> batch.components[e].found_on_urls]>>

\* C29: _merge_rfp_batches leaves its input batches unchanged: the
\* example_urls and found_on_urls lists of every batch collected before the
\* merge hold the same values after it.
C29_MergeLeavesBatchesUnchanged ==
    [][\A j \in DOMAIN a_batches :
          j \in DOMAIN a_batches' =>
              UrlListsOf(a_batches'[j]) = UrlListsOf(a_batches[j])]_vars

(***************************************************************************)
(* Progress of the fetch phase.                                            *)
(***************************************************************************)
\* every fetch task has returned and every permit is back
FetchPhaseComplete ==
    /\ \A i \in Tasks : TaskReturned(i)
    /\ sem = c_concurrency

\* C30: with network operations that return or time out and concurrency >= 1,
\* the fetch phase always completes: every URL of the list gets a result,
\* every permit taken is released, also after a failed fetch, and no task
\* waits on the gate forever.
C30_FetchPhaseCompletes ==
    (c_pc = "fetching") ~> FetchPhaseComplete

\* more URLs than permits, one fetch failed, and the phase is complete
C30_Witness ==
    /\ c_pc = "fetching"
    /\ c_concurrency >= 1
    /\ Len(links_to_crawl) > c_concurrency
    /\ \E i \in Tasks : t_pc[i] = "returned_exception"
    /\ \E i \in Tasks : t_pc[i] = "returned_text"
    /\ FetchPhaseComplete
====
